---- MODULE Spec2Model ----
(***************************************************************************)
(* Model of the financial calculators of Finance-tips-api                  *)
(* (helpers/tips.py): calculate_savings_plan, calculate_loan_duration,     *)
(* simulate_budget, calculate_zakat and the helpers they call, and of the  *)
(* endpoints that serve them (resources/tips.py) with save_calculation,    *)
(* and of the user accounts (helpers/users.py, resources/users.py).        *)
(*                                                                         *)
(* Amounts are exact fixed-point numbers: an amount a is held as the       *)
(* integer a * Scale.  The arguments the model draws are therefore         *)
(* integers and multiples of 1/Scale, on which Python's int and float      *)
(* arithmetic (+, -, *, /, math.ceil, comparisons) is exact at the         *)
(* magnitudes used here.  Durations are plain integers (months).           *)
(* A Python dict is a TLA+ record; an absent key is an absent field.       *)
(***************************************************************************)
EXTENDS Integers, Sequences, FiniteSets, TLC

\* call: the function or endpoint called, with its arguments
\* pc: "called" before it runs, "returned" after
\* result: its return value (of an endpoint: the response)
\* db: the database
\* calculated: the local variable 'result' of an endpoint when it returns,
\*   None if it did not call its calculator
\* users: the table 'users', the sequence of its committed rows
\* audit_logs: the table 'audit_logs'
\* clients: the requests to the user endpoints that run at the same time,
\*   each with its position in its handler and its own database session
VARIABLES call, pc, result, db, calculated, users, audit_logs, clients

\* the state of the user accounts
accounts == <<users, audit_logs, clients>>

vars == <<call, pc, result, db, calculated, users, audit_logs, clients>>

(***************************************************************************)
(* Bounds of the model                                                     *)
(***************************************************************************)
\* resolution of amounts: one unit of currency is Scale model units
Scale == 2
\* target amounts 0 .. MaxTarget (in steps of 1/Scale)
MaxTarget == 26
\* monthly savings 0 .. MaxMonthly (in steps of 1/Scale)
MaxMonthly == 13
\* durations 0 .. MaxDuration months
MaxDuration == 14
\* loan amounts within MaxLoanSpread of MIN_LOAN_AMOUNT
MaxLoanSpread == 2
\* monthly payments 0 .. MaxPayment (in steps of 1/Scale)
MaxPayment == 12
\* monthly incomes 0 .. MaxIncome model units
MaxIncome == 6
\* expense amounts 0 .. MaxExpense model units
MaxExpense == 4
\* entries of an expenses dict
MaxExpenses == 2
\* savings goals 0 .. MaxGoal model units
MaxGoal == 3
\* assets, debts and nisab values 0 .. Max... model units
MaxAssets == 6
MaxDebts == 3
MaxNisab == 4
\* numbers passed to the validators: -1 .. MaxRawValue, limits 0 .. MaxRawLimit
MaxRawValue == 4
MaxRawLimit == 3

(***************************************************************************)
(* config/constant.py: HALAL_FINANCE                                       *)
(***************************************************************************)
MIN_MONTHLY_SAVING == 10
MAX_LOAN_DURATION_MONTHS == 360
MIN_LOAN_AMOUNT == 100
MAX_LOAN_AMOUNT == 10000000

(***************************************************************************)
(* Python values                                                           *)
(***************************************************************************)
\* an optional argument: None, or a value v held as <<v>>
None == <<>>
Some(v) == <<v>>
Val(o) == o[1]
\* Python truthiness of an optional number: None and 0 are falsy
Truthy(o) == o # None /\ Val(o) # 0
\* the 'error' entry of a result that carries no error (Python None)
NoError == "None"
\* dict.update: the entries of new replace or extend those of old
Update(old, new) == new @@ old

\* math.ceil(a / b) for b > 0
Ceil(a, b) == -((-a) \div b)
Min(a, b) == IF a <= b THEN a ELSE b
\* round(a / b, 1) for a >= 0, b > 0, in tenths: Python rounds half to even
Round1(a, b) ==
    LET q == (10 * a) \div b
        r == (10 * a) % b
    IN  IF 2 * r > b \/ (2 * r = b /\ q % 2 = 1) THEN q + 1 ELSE q

\* how Python prints a whole number of months or euros in an f-string
Str(n) == ToString(n)

(***************************************************************************)
(* validate_amount(amount, min_amount=None, max_amount=None), for an       *)
(* amount that float() made a finite number (lines 18-27; float() and the  *)
(* except clause are in validate_amount_try below).                        *)
(* amount is in model units; min_amount and max_amount are optional whole  *)
(* amounts.  Returns <<valid, error_message>>.                             *)
(***************************************************************************)
validate_amount(amount, min_amount, max_amount) ==
    IF amount <= 0 THEN <<FALSE, "Le montant doit être positif">>
    ELSE IF Truthy(min_amount) /\ amount < Val(min_amount) * Scale
         THEN <<FALSE, "Le montant minimum est " \o Str(Val(min_amount))>>
    ELSE IF Truthy(max_amount) /\ amount > Val(max_amount) * Scale
         THEN <<FALSE, "Le montant maximum est " \o Str(Val(max_amount))>>
    ELSE <<TRUE, NoError>>

(***************************************************************************)
(* validate_duration(months), for the integer that int() made of months   *)
(* (lines 38-44; int() and the except clause are in validate_duration_try) *)
(***************************************************************************)
validate_duration(months) ==
    IF months <= 0 THEN <<FALSE, "La durée doit être positive">>
    ELSE IF months > MAX_LOAN_DURATION_MONTHS
         THEN <<FALSE, "La durée maximum est " \o Str(MAX_LOAN_DURATION_MONTHS) \o " mois">>
    ELSE <<TRUE, NoError>>

(***************************************************************************)
(* generate_savings_suggestions(target_amount, monthly_saving,             *)
(*                              duration_months)                           *)
(***************************************************************************)
\* mutant of suggest_faster: a plan of exactly 12 months gets the proposal too
suggest_faster_from_12(duration_months) == duration_months >= 12

\* line 240: if duration_months > 12
suggest_faster(duration_months) == duration_months > 12

\* line 248: if monthly_saving > target_amount * 0.1
suggest_comfortable(target_amount, monthly_saving) ==
    monthly_saving * 10 > target_amount

generate_savings_suggestions(target_amount, monthly_saving, duration_months) ==
    LET faster_saving == Ceil(target_amount, 12 * Scale)
        faster ==
            IF suggest_faster(duration_months)
            THEN << [type |-> "faster",
                     description |-> "En épargnant " \o Str(faster_saving)
                         \o "€ par mois, vous atteindrez votre objectif en 1 an"] >>
            ELSE << >>
        \* target_amount / (target_amount * 0.05)
        comfortable_duration == Ceil(target_amount * 100, target_amount * 5)
        comfortable_saving == Ceil(target_amount, comfortable_duration * Scale)
        comfortable ==
            IF suggest_comfortable(target_amount, monthly_saving)
            THEN << [type |-> "comfortable",
                     description |-> "Une épargne de " \o Str(comfortable_saving)
                         \o "€ par mois sur " \o Str(comfortable_duration)
                         \o " mois pourrait être plus confortable"] >>
            ELSE << >>
    IN  faster \o comfortable

(***************************************************************************)
(* calculate_savings_plan(target_amount, monthly_saving=None,              *)
(*                        duration_months=None)                            *)
(* duration_years is held in tenths of a year.                             *)
(***************************************************************************)
\* mutant of savings_duration: the quotient is truncated
savings_duration_floor(target_amount, monthly_saving) ==
    target_amount \div monthly_saving

\* line 79: duration_months = math.ceil(target_amount / monthly_saving)
savings_duration(target_amount, monthly_saving) ==
    Ceil(target_amount, monthly_saving)

\* mutant of savings_monthly: the quotient is truncated
savings_monthly_floor(target_amount, duration_months) ==
    (target_amount \div (duration_months * Scale)) * Scale

\* line 94: monthly_saving = math.ceil(target_amount / duration_months),
\* a whole amount, held in model units
savings_monthly(target_amount, duration_months) ==
    Ceil(target_amount, duration_months * Scale) * Scale

\* mutant of plan_case: the duration is looked at first
plan_case_duration_first(monthly_saving, duration_months) ==
    IF duration_months # None THEN "duration_months"
    ELSE IF monthly_saving # None THEN "monthly_saving"
    ELSE "neither"

\* the branch taken by the if / elif / else on the two optional arguments
plan_case(monthly_saving, duration_months) ==
    IF monthly_saving # None THEN "monthly_saving"
    ELSE IF duration_months # None THEN "duration_months"
    ELSE "neither"

\* mutant of plan_usage_error: the else branch returns without an error
plan_usage_error_unset(base) == base

\* the else branch: neither argument was given
plan_usage_error(base) ==
    Update(base, [error |-> "Veuillez fournir soit l'épargne mensuelle, soit la durée"])

\* result.update({...}) of either branch, then result['suggestions'] = ...
SavingsPlanFields(target_amount, monthly_saving, duration_months) ==
    [monthly_saving |-> monthly_saving,
     duration_months |-> duration_months,
     duration_years |-> Round1(duration_months, 12),
     total_saved |-> monthly_saving * duration_months,
     suggestions |-> generate_savings_suggestions(target_amount, monthly_saving,
                                                  duration_months)]

calculate_savings_plan(target_amount, monthly_saving, duration_months) ==
    LET base == [calculation_type |-> "savings_plan",
                 target_amount |-> target_amount,
                 currency |-> "EUR",
                 error |-> NoError]
        vt == validate_amount(target_amount, Some(MIN_MONTHLY_SAVING), None)
        case == plan_case(monthly_saving, duration_months)
    IN  IF ~vt[1] THEN Update(base, [error |-> vt[2]])
        ELSE IF case = "monthly_saving" THEN
            LET vm == validate_amount(Val(monthly_saving), Some(MIN_MONTHLY_SAVING), None)
            IN  IF ~vm[1] THEN Update(base, [error |-> vm[2]])
                ELSE Update(base,
                        SavingsPlanFields(target_amount, Val(monthly_saving),
                            savings_duration(target_amount, Val(monthly_saving))))
        ELSE IF case = "duration_months" THEN
            LET vd == validate_duration(Val(duration_months))
            IN  IF ~vd[1] THEN Update(base, [error |-> vd[2]])
                ELSE Update(base,
                        SavingsPlanFields(target_amount,
                            savings_monthly(target_amount, Val(duration_months)),
                            Val(duration_months)))
        ELSE plan_usage_error(base)

(***************************************************************************)
(* generate_payment_schedule(loan_amount, monthly_payment, duration_months)*)
(* The for loop is modelled by its body: a loop state holds the list       *)
(* 'schedule', remaining_balance, the next value of 'month' and whether    *)
(* 'break' was taken.  PaymentLoop runs n iterations of the body, split    *)
(* in halves only to keep the evaluation shallow.                          *)
(***************************************************************************)
\* mutant of PaymentLoopBody: cumulative_paid is taken before the payment
PaymentLoopBody_paid_before(loan_amount, monthly_payment, st) ==
    IF st.broke THEN st
    ELSE LET payment == Min(monthly_payment, st.remaining_balance)
             balance == st.remaining_balance - payment
         IN  [schedule |-> Append(st.schedule,
                              [month |-> st.month,
                               payment |-> payment,
                               remaining_balance |-> balance,
                               cumulative_paid |-> loan_amount - st.remaining_balance]),
              remaining_balance |-> balance,
              month |-> st.month + 1,
              broke |-> balance <= 0]

\* mutant of PaymentLoopBody: every month pays the full monthly_payment
PaymentLoopBody_full(loan_amount, monthly_payment, st) ==
    IF st.broke THEN st
    ELSE LET payment == monthly_payment
             balance == st.remaining_balance - payment
         IN  [schedule |-> Append(st.schedule,
                              [month |-> st.month,
                               payment |-> payment,
                               remaining_balance |-> balance,
                               cumulative_paid |-> loan_amount - balance]),
              remaining_balance |-> balance,
              month |-> st.month + 1,
              broke |-> balance <= 0]

PaymentLoopBody(loan_amount, monthly_payment, st) ==
    IF st.broke THEN st
    ELSE LET payment == Min(monthly_payment, st.remaining_balance)
             balance == st.remaining_balance - payment
         IN  [schedule |-> Append(st.schedule,
                              [month |-> st.month,
                               payment |-> payment,
                               remaining_balance |-> balance,
                               cumulative_paid |-> loan_amount - balance]),
              remaining_balance |-> balance,
              month |-> st.month + 1,
              broke |-> balance <= 0]

RECURSIVE PaymentLoop(_, _, _, _)
PaymentLoop(loan_amount, monthly_payment, st, n) ==
    IF n <= 0 THEN st
    ELSE IF n = 1 THEN PaymentLoopBody(loan_amount, monthly_payment, st)
    ELSE LET half == PaymentLoop(loan_amount, monthly_payment, st, n \div 2)
         IN  IF half.broke THEN half
             ELSE PaymentLoop(loan_amount, monthly_payment, half, n - (n \div 2))

\* the whole list 'schedule' at the return statement, before it is sliced
full_schedule(loan_amount, monthly_payment, duration_months) ==
    PaymentLoop(loan_amount, monthly_payment,
                [schedule |-> << >>, remaining_balance |-> loan_amount,
                 month |-> 1, broke |-> FALSE],
                duration_months).schedule

\* mutant of generate_payment_schedule: the last 12 months are returned
generate_payment_schedule_last12(loan_amount, monthly_payment, duration_months) ==
    LET schedule == full_schedule(loan_amount, monthly_payment, duration_months)
    IN  SubSeq(schedule, Len(schedule) - Min(12, Len(schedule)) + 1, Len(schedule))

\* schedule[:12]
generate_payment_schedule(loan_amount, monthly_payment, duration_months) ==
    LET schedule == full_schedule(loan_amount, monthly_payment, duration_months)
    IN  SubSeq(schedule, 1, Min(12, Len(schedule)))

(***************************************************************************)
(* calculate_loan_duration(loan_amount, monthly_payment)                   *)
(***************************************************************************)
total_paid(loan_amount, monthly_payment, duration_months) ==
    monthly_payment * duration_months

\* mutant of last_payment: the remainder of the division
last_payment_remainder(loan_amount, monthly_payment, duration_months) ==
    loan_amount % monthly_payment

last_payment(loan_amount, monthly_payment, duration_months) ==
    loan_amount - (monthly_payment * (duration_months - 1))

\* mutant of payment_exceeds_loan: a payment equal to the loan is refused too
payment_exceeds_loan_or_equal(loan_amount, monthly_payment) ==
    monthly_payment >= loan_amount

\* line 145: if monthly_payment > loan_amount
payment_exceeds_loan(loan_amount, monthly_payment) ==
    monthly_payment > loan_amount

\* mutant of loan_duration_exceeds: the limit is passed one month late
loan_duration_exceeds_late(duration_months) ==
    duration_months - 1 > MAX_LOAN_DURATION_MONTHS

\* line 153: if duration_months > HALAL_FINANCE['MAX_LOAN_DURATION_MONTHS']
loan_duration_exceeds(duration_months) ==
    duration_months > MAX_LOAN_DURATION_MONTHS

calculate_loan_duration(loan_amount, monthly_payment) ==
    LET base == [calculation_type |-> "loan_duration",
                 loan_amount |-> loan_amount,
                 monthly_payment |-> monthly_payment,
                 currency |-> "EUR",
                 error |-> NoError]
        vl == validate_amount(loan_amount, Some(MIN_LOAN_AMOUNT), Some(MAX_LOAN_AMOUNT))
        vp == validate_amount(monthly_payment, Some(1), None)
        duration_months == Ceil(loan_amount, monthly_payment)
    IN  IF ~vl[1] THEN Update(base, [error |-> vl[2]])
        ELSE IF ~vp[1] THEN Update(base, [error |-> vp[2]])
        ELSE IF payment_exceeds_loan(loan_amount, monthly_payment)
             THEN Update(base, [error |->
                    "Le paiement mensuel ne peut pas dépasser le montant du prêt"])
        ELSE IF loan_duration_exceeds(duration_months)
             THEN Update(base, [error |->
                    "La durée de remboursement dépasse le maximum autorisé ("
                    \o Str(MAX_LOAN_DURATION_MONTHS) \o " mois)"])
        ELSE Update(base,
                [duration_months |-> duration_months,
                 duration_years |-> Round1(duration_months, 12),
                 total_paid |-> total_paid(loan_amount, monthly_payment, duration_months),
                 last_payment |-> last_payment(loan_amount, monthly_payment,
                                               duration_months),
                 payment_schedule |-> generate_payment_schedule(loan_amount,
                                          monthly_payment, duration_months)])

(***************************************************************************)
(* simulate_budget(monthly_income, expenses, savings_goal=None)            *)
(* expenses and expense_breakdown are dicts, which keep insertion order:   *)
(* each is held as the sequence of its entries, one per category.          *)
(* Percentages and savings_rate are held in tenths of a percent.           *)
(***************************************************************************)
\* round(a / b * 100, 1) for b > 0, in tenths of a percent.  Python rounds the
\* float to the nearest tenth, and an exact half to the even tenth; the
\* arguments drawn below (b < 16 model units, and the worked examples) have
\* no half that the float would not hold exactly.
Percent1(a, b) ==
    LET q == (1000 * a) \div b
        r == (1000 * a) % b
    IN  IF 2 * r > b \/ (2 * r = b /\ q % 2 = 1) THEN q + 1 ELSE q

\* str.lower() on the category names the model draws
Lower(category) ==
    CASE category = "Logement" -> "logement"
      [] category = "Alimentation" -> "alimentation"
      [] OTHER -> category

\* the index of the first expense that validate_amount rejects, 0 if none
FirstInvalid(expenses) ==
    LET bad == {k \in 1 .. Len(expenses) :
                    ~validate_amount(expenses[k].amount, Some(0), None)[1]}
    IN  IF bad = {} THEN 0 ELSE CHOOSE k \in bad : \A j \in bad : k <= j

RECURSIVE SumAmounts(_)
SumAmounts(expenses) ==
    IF expenses = << >> THEN 0
    ELSE expenses[1].amount + SumAmounts(Tail(expenses))

\* mutant of housing_share_high: a share of exactly 35 % is advised on too
housing_share_high_or_equal(percentage) == percentage >= 350

\* line 304: percentage > 35, on the percentage in tenths of a percent
housing_share_high(percentage) == percentage > 350

\* line 312: percentage > 15
food_share_high(percentage) == percentage > 150

\* generate_budget_recommendations: the list of recommendations, in the order
\* they are appended.  Of each 'description' the entry keeps the values the
\* f-string prints (percentage, abs(savings) as deficit), not the sentence.
generate_budget_recommendations(income, expenses, savings, expense_breakdown) ==
    LET \* savings_rate = (savings / income * 100) if income > 0 else 0
        low == IF income > 0 THEN savings * 100 < 10 * income ELSE TRUE
        high == IF income > 0 THEN savings * 100 >= 20 * income ELSE FALSE
        rate == IF low
                THEN << [type |-> "savings", priority |-> "high"] >>
                ELSE IF high
                THEN << [type |-> "savings", priority |-> "info"] >>
                ELSE << >>
        ForCategory(data) ==
            IF Lower(data.category) = "logement" /\ housing_share_high(data.percentage)
            THEN << [type |-> "expense", priority |-> "medium",
                     category |-> data.category, percentage |-> data.percentage] >>
            ELSE IF Lower(data.category) \in {"alimentation", "nourriture"}
                    /\ food_share_high(data.percentage)
            THEN << [type |-> "expense", priority |-> "low",
                     category |-> data.category, percentage |-> data.percentage] >>
            ELSE << >>
        Categories[k \in 0 .. Len(expense_breakdown)] ==
            IF k = 0 THEN << >>
            ELSE Categories[k - 1] \o ForCategory(expense_breakdown[k])
        deficit == IF savings < 0
                   THEN << [type |-> "budget", priority |-> "critical",
                            deficit |-> -savings] >>
                   ELSE << >>
    IN  rate \o Categories[Len(expense_breakdown)] \o deficit

\* line 210: available_savings = monthly_income - total_expenses
budget_available_savings(monthly_income, total_expenses) ==
    monthly_income - total_expenses

\* mutant of budget_status: a zero balance counts as a surplus
budget_status_nonstrict(available_savings) ==
    IF available_savings >= 0 THEN "excédentaire"
    ELSE IF available_savings = 0 THEN "équilibré"
    ELSE "déficitaire"

\* line 217
budget_status(available_savings) ==
    IF available_savings > 0 THEN "excédentaire"
    ELSE IF available_savings = 0 THEN "équilibré"
    ELSE "déficitaire"

simulate_budget(monthly_income, expenses, savings_goal) ==
    LET base == [calculation_type |-> "budget_simulation",
                 monthly_income |-> monthly_income,
                 currency |-> "EUR",
                 error |-> NoError]
        vi == validate_amount(monthly_income, Some(0), None)
        bad == FirstInvalid(expenses)
        total_expenses == SumAmounts(expenses)
        expense_breakdown ==
            [k \in 1 .. Len(expenses) |->
                [category |-> expenses[k].category,
                 amount |-> expenses[k].amount,
                 percentage |-> IF monthly_income > 0
                                THEN Percent1(expenses[k].amount, monthly_income)
                                ELSE 0]]
        available_savings == budget_available_savings(monthly_income, total_expenses)
        computed ==
            [total_expenses |-> total_expenses,
             expense_breakdown |-> expense_breakdown,
             available_savings |-> available_savings,
             savings_rate |-> IF monthly_income > 0
                              THEN Percent1(available_savings, monthly_income)
                              ELSE 0,
             budget_status |-> budget_status(available_savings),
             recommendations |-> generate_budget_recommendations(monthly_income,
                                    total_expenses, available_savings,
                                    expense_breakdown)]
        goal ==
            IF savings_goal # None
               /\ validate_amount(Val(savings_goal), Some(0), None)[1]
            THEN [savings_goal |-> Val(savings_goal),
                  goal_achievable |-> available_savings >= Val(savings_goal),
                  goal_gap |-> IF ~(available_savings >= Val(savings_goal))
                               THEN Val(savings_goal) - available_savings
                               ELSE 0]
            ELSE << >>
    IN  IF ~vi[1] THEN Update(base, [error |-> vi[2]])
        ELSE IF bad # 0
             THEN Update(base, [error |-> "Dépense invalide pour "
                        \o expenses[bad].category \o ": "
                        \o validate_amount(expenses[bad].amount, Some(0), None)[2]])
        ELSE Update(Update(base, computed), goal)

(***************************************************************************)
(* calculate_zakat(assets, debts=0, nisab_value=None)                      *)
(* zakat_amount = net_assets * 0.025 is held in thousandths of a model     *)
(* unit, so that it stays a whole number: Milli(x) is x in that unit.      *)
(***************************************************************************)
Milli(x) == x * 1000

DEFAULT_NISAB == 3000

ZAKAT_RATE_MILLI == 25

\* line 388: net_assets = assets - debts
zakat_net_assets(assets, debts) == assets - debts

\* lines 391-392: the nisab used, in model units
zakat_nisab(nisab_value) ==
    IF nisab_value = None THEN DEFAULT_NISAB * Scale ELSE Val(nisab_value)

\* mutant of zakat_eligible: the nisab itself is not eligible
zakat_eligible_strict(net_assets, nisab) == net_assets > nisab

\* line 394: if net_assets >= nisab_value
zakat_eligible(net_assets, nisab) == net_assets >= nisab

\* mutant of zakat_amount: 25% instead of 2.5%
zakat_amount_tenfold(net_assets) == net_assets * ZAKAT_RATE_MILLI * 10

\* line 395: zakat_amount = net_assets * 0.025, in thousandths of a model unit
zakat_amount(net_assets) == net_assets * ZAKAT_RATE_MILLI

calculate_zakat(assets, debts, nisab_value) ==
    LET net_assets == zakat_net_assets(assets, debts)
        nisab == zakat_nisab(nisab_value)
    IN  IF zakat_eligible(net_assets, nisab)
        THEN [eligible |-> TRUE,
              net_assets |-> net_assets,
              zakat_amount |-> zakat_amount(net_assets),
              nisab_value |-> nisab]
        ELSE [eligible |-> FALSE,
              net_assets |-> net_assets,
              nisab_value |-> nisab,
              shortfall |-> nisab - net_assets]

(***************************************************************************)
(* Python objects passed to the validators, and the built-ins float() and  *)
(* int() that validate_amount and validate_duration apply to them.         *)
(* An object is a record with its type in 'kind':                          *)
(*   int       v: the integer (bool is an int: True is 1, False is 0)      *)
(*   bigint    an int too large for a float (10 ** 400), sign in v         *)
(*   float     cls "finite" with v in model units, or "nan", "inf", "-inf" *)
(*   str       chars: the characters, one string each                      *)
(*   NoneType, list                                                        *)
(* A built-in returns [exc, ...]: exc is the exception raised, or "None".  *)
(***************************************************************************)
PyInt(n) == [kind |-> "int", v |-> n]
PyBigInt(sign) == [kind |-> "bigint", v |-> sign]
PyFloat(cls, v) == [kind |-> "float", cls |-> cls, v |-> v]
PyStr(chars) == [kind |-> "str", chars |-> chars]
PyNone == [kind |-> "NoneType"]
PyList == [kind |-> "list"]

DigitChars == <<"0", "1", "2", "3", "4", "5", "6", "7", "8", "9">>
IsDigit(c) == \E d \in 1 .. 10 : DigitChars[d] = c
DigitValue(c) == (CHOOSE d \in 1 .. 10 : DigitChars[d] = c) - 1
AllDigits(s) == Len(s) >= 1 /\ \A k \in 1 .. Len(s) : IsDigit(s[k])

\* the number written by a sequence of digits, and 10 ** n
RECURSIVE DigitsValue(_)
DigitsValue(s) ==
    IF s = << >> THEN 0
    ELSE 10 * DigitsValue(SubSeq(s, 1, Len(s) - 1)) + DigitValue(s[Len(s)])

RECURSIVE Pow10(_)
Pow10(n) == IF n = 0 THEN 1 ELSE 10 * Pow10(n - 1)

\* str.strip() of the blanks at both ends, as float() and int() do
RECURSIVE Strip(_)
Strip(s) ==
    IF s # << >> /\ Head(s) = " " THEN Strip(Tail(s))
    ELSE IF s # << >> /\ s[Len(s)] = " " THEN Strip(SubSeq(s, 1, Len(s) - 1))
    ELSE s

\* a numeral without its blanks: the sign, and the characters after it
Signed(s) ==
    LET t == Strip(s)
    IN  IF t # << >> /\ t[1] = "-" THEN [sign |-> -1, body |-> Tail(t)]
        ELSE [sign |-> 1, body |-> t]

\* the place of the first "." of a sequence of characters, 0 if none
DotAt(s) ==
    LET dots == {k \in 1 .. Len(s) : s[k] = "."}
    IN  IF dots = {} THEN 0 ELSE CHOOSE k \in dots : \A j \in dots : k <= j

\* float(x).  Of the grammar of float(str) the model has the numerals made of
\* blanks, a sign, digits and a point, and the words inf and nan; a decimal
\* is rounded down to the model's resolution of 1/Scale.
float(x) ==
    CASE x.kind = "int" -> [exc |-> "None", cls |-> "finite", v |-> x.v * Scale]
      [] x.kind = "bigint" -> [exc |-> "OverflowError", cls |-> "finite", v |-> 0]
      [] x.kind = "float" -> [exc |-> "None", cls |-> x.cls, v |-> x.v]
      [] x.kind = "str" ->
            LET n == Signed(x.chars)
                b == n.body
                dot == DotAt(b)
                whole == IF dot = 0 THEN b ELSE SubSeq(b, 1, dot - 1)
                frac == IF dot = 0 THEN << >> ELSE SubSeq(b, dot + 1, Len(b))
            IN  IF b = <<"i", "n", "f">>
                THEN [exc |-> "None",
                      cls |-> IF n.sign = 1 THEN "inf" ELSE "-inf", v |-> 0]
                ELSE IF b = <<"n", "a", "n">>
                THEN [exc |-> "None", cls |-> "nan", v |-> 0]
                ELSE IF /\ Len(whole) + Len(frac) >= 1
                        /\ whole = << >> \/ AllDigits(whole)
                        /\ frac = << >> \/ AllDigits(frac)
                THEN [exc |-> "None", cls |-> "finite",
                      v |-> n.sign * (DigitsValue(whole) * Scale
                              + (DigitsValue(frac) * Scale) \div Pow10(Len(frac)))]
                ELSE [exc |-> "ValueError", cls |-> "finite", v |-> 0]
      [] OTHER -> [exc |-> "TypeError", cls |-> "finite", v |-> 0]

\* int(x): big is TRUE for an integer beyond every bound of the program, of
\* which v keeps the sign.  A float is truncated towards zero.
int(x) ==
    CASE x.kind = "int" -> [exc |-> "None", big |-> FALSE, v |-> x.v]
      [] x.kind = "bigint" -> [exc |-> "None", big |-> TRUE, v |-> x.v]
      [] x.kind = "float" ->
            IF x.cls = "nan" THEN [exc |-> "ValueError", big |-> FALSE, v |-> 0]
            ELSE IF x.cls # "finite"
            THEN [exc |-> "OverflowError", big |-> FALSE, v |-> 0]
            ELSE [exc |-> "None", big |-> FALSE,
                  v |-> IF x.v >= 0 THEN x.v \div Scale ELSE -((-x.v) \div Scale)]
      [] x.kind = "str" ->
            LET n == Signed(x.chars)
            IN  IF AllDigits(n.body)
                THEN [exc |-> "None", big |-> FALSE, v |-> n.sign * DigitsValue(n.body)]
                ELSE [exc |-> "ValueError", big |-> FALSE, v |-> 0]
      [] OTHER -> [exc |-> "TypeError", big |-> FALSE, v |-> 0]

\* validate_amount as it is called: float(amount) and the comparisons run
\* inside try, and except (ValueError, TypeError) turns these two exceptions
\* into (False, "Montant invalide"); any other exception leaves the function.
\* The return value is [raised, valid, message]; a call that raises returns
\* nothing and is [raised] alone.  Every comparison with nan is False, and
\* inf is above every max_amount.
validate_amount_try(amount, min_amount, max_amount) ==
    LET f == float(amount)
        returns(r) == [raised |-> "None", valid |-> r[1], message |-> r[2]]
    IN  IF f.exc \in {"ValueError", "TypeError"}
        THEN returns(<<FALSE, "Montant invalide">>)
        ELSE IF f.exc # "None" THEN [raised |-> f.exc]
        ELSE IF f.cls = "finite"
        THEN returns(validate_amount(f.v, min_amount, max_amount))
        ELSE IF f.cls = "-inf"
        THEN returns(<<FALSE, "Le montant doit être positif">>)
        ELSE IF f.cls = "inf" /\ Truthy(max_amount)
        THEN returns(<<FALSE, "Le montant maximum est " \o Str(Val(max_amount))>>)
        ELSE returns(<<TRUE, NoError>>)

\* validate_duration as it is called: int(months) and the comparisons run
\* inside try, with the same except clause.
validate_duration_try(months) ==
    LET n == int(months)
        returns(r) == [raised |-> "None", valid |-> r[1], message |-> r[2]]
    IN  IF n.exc \in {"ValueError", "TypeError"}
        THEN returns(<<FALSE, "Durée invalide">>)
        ELSE IF n.exc # "None" THEN [raised |-> n.exc]
        ELSE IF n.big
        THEN returns(validate_duration(n.v * (MAX_LOAN_DURATION_MONTHS + 1)))
        ELSE returns(validate_duration(n.v))

(***************************************************************************)
(* The database (config/db.py, model/finance_tips.py): the table           *)
(* 'calculations' as the sequence of its committed rows, and db.session as *)
(* the sequence of the rows added and not yet committed.                   *)
(***************************************************************************)
EmptyDb == [calculations |-> << >>, session |-> << >>]

\* db.session.add(calculation)
session_add(d, row) == [d EXCEPT !.session = Append(@, row)]
\* db.session.commit(): the pending rows become rows of the table
session_commit(d) == [calculations |-> d.calculations \o d.session, session |-> << >>]
\* db.session.rollback(): the pending rows are dropped
session_rollback(d) == [d EXCEPT !.session = << >>]

\* mutant of save_calculation: the exception of a failed write is not caught
save_calculation_uncaught(user_id, calculation_type, input_data, result_data, write, d) ==
    LET calculation == [user_id |-> user_id, calculation_type |-> calculation_type,
                        input_data |-> input_data, result_data |-> result_data]
        added == session_add(d, calculation)
    IN  IF write = "ok"
        THEN [raised |-> "None", returns |-> Some(calculation), db |-> session_commit(added)]
        ELSE [raised |-> write, returns |-> None, db |-> added]

\* save_calculation(user_id, calculation_type, input_data, result_data).
\* write is what the database does with the commit: "ok", or the exception
\* it raises.  Returns [raised, returns, db]: the exception that leaves the
\* function ("None": none), its return value and the database after it.
save_calculation(user_id, calculation_type, input_data, result_data, write, d) ==
    LET calculation == [user_id |-> user_id, calculation_type |-> calculation_type,
                        input_data |-> input_data, result_data |-> result_data]
        added == session_add(d, calculation)
    IN  IF write = "ok"
        THEN [raised |-> "None", returns |-> Some(calculation), db |-> session_commit(added)]
        ELSE [raised |-> "None", returns |-> None, db |-> session_rollback(added)]

(***************************************************************************)
(* resources/tips.py: the endpoints of the calculators.                    *)
(* A request is [data, authorization]: the JSON body as a record of Python *)
(* objects (a key that is absent or null is PyNone, as data.get gives      *)
(* None) and whether an Authorization header came with it.  The            *)
(* environment of a request is [jwt, write]: what get_jwt_identity() does  *)
(* (flask_jwt_extended is not part of the repository: it returns the       *)
(* identity of the token verified for the request, returns None, or raises *)
(* RuntimeError when no token was verified, and these endpoints are not    *)
(* decorated with jwt_required) and what the database does with a commit.  *)
(* A response is [status, body].                                           *)
(***************************************************************************)
\* bool(x) of a Python object
PyTruthy(x) ==
    CASE x.kind = "NoneType" -> FALSE
      [] x.kind = "int" -> x.v # 0
      [] x.kind = "float" -> ~(x.cls = "finite" /\ x.v = 0)
      [] x.kind = "str" -> x.chars # << >>
      [] OTHER -> TRUE

SERVER_ERROR == "Erreur serveur"

Response(status, body) == [status |-> status, body |-> body]

\* the two except clauses of an endpoint, for the exception exc
except_response(exc) ==
    IF exc = "ValueError"
    THEN Response(400, [error |-> "Valeurs numériques invalides"])
    ELSE Response(500, [error |-> SERVER_ERROR])

\* the first exception raised by a sequence of conversions, "None" if none
FirstRaised(conversions) ==
    LET bad == {k \in 1 .. Len(conversions) : conversions[k].exc # "None"}
    IN  IF bad = {} THEN "None"
        ELSE conversions[CHOOSE k \in bad : \A j \in bad : k <= j].exc

\* the identity in the token of the caller, when get_jwt_identity() returns it
USER_ID == 7

\* get_jwt_identity() if request.headers.get('Authorization') else None:
\* env.jwt is "identity", "None" or the exception get_jwt_identity() raises
\* returns [raised, user_id]
request_user_id(request, env) ==
    IF ~request.authorization THEN [raised |-> "None", user_id |-> None]
    ELSE IF env.jwt = "RuntimeError" THEN [raised |-> "RuntimeError", user_id |-> None]
    ELSE IF env.jwt = "None" THEN [raised |-> "None", user_id |-> None]
    ELSE [raised |-> "None", user_id |-> Some(USER_ID)]

\* mutant of respond: the calculation is saved before the error is looked at
respond_saves_first(calculation_type, request, env, res, d) ==
    LET answer(response, after) ==
            [response |-> response, db |-> after, calculated |-> Some(res)]
        who == request_user_id(request, env)
    IN  IF who.raised # "None"
        THEN answer(except_response(who.raised), d)
        ELSE LET saved == IF who.user_id = None
                          THEN [raised |-> "None", returns |-> None, db |-> d]
                          ELSE save_calculation(Val(who.user_id), calculation_type,
                                                request.data, res, env.write, d)
             IN  IF saved.raised # "None"
                 THEN answer(except_response(saved.raised), saved.db)
                 ELSE IF res.error # NoError
                 THEN answer(Response(400, [error |-> res.error]), saved.db)
                 ELSE answer(Response(200, res), saved.db)

\* what every calculator endpoint does with the calculator's result: the
\* error check, the optional save_calculation and the response.
\* Returns [response, db, calculated].
respond(calculation_type, request, env, res, d) ==
    LET answer(response, after) ==
            [response |-> response, db |-> after, calculated |-> Some(res)]
    IN  IF res.error # NoError
        THEN answer(Response(400, [error |-> res.error]), d)
        ELSE LET who == request_user_id(request, env)
             IN  IF who.raised # "None"
                 THEN answer(except_response(who.raised), d)
                 ELSE IF who.user_id = None
                 THEN answer(Response(200, res), d)
                 ELSE LET saved == save_calculation(Val(who.user_id), calculation_type,
                                                    request.data, res, env.write, d)
                      IN  IF saved.raised # "None"
                          THEN answer(except_response(saved.raised), saved.db)
                          ELSE answer(Response(200, res), saved.db)

\* SavingsPlanCalculator.post
SavingsPlanCalculator_post(request, env, d) ==
    LET data == request.data
        target_amount == data.target_amount
        monthly_saving == data.monthly_saving
        duration_months == data.duration_months
        ft == float(target_amount)
        fm == IF PyTruthy(monthly_saving) THEN float(monthly_saving)
              ELSE [exc |-> "None", cls |-> "finite", v |-> 0]
        fd == IF PyTruthy(duration_months) THEN int(duration_months)
              ELSE [exc |-> "None", big |-> FALSE, v |-> 0]
        raised == FirstRaised(<<ft, fm, fd>>)
    IN  IF ~PyTruthy(target_amount)
        THEN [response |-> Response(400, [error |-> "Le montant cible est requis"]),
              db |-> d, calculated |-> None]
        ELSE IF raised # "None"
        THEN [response |-> except_response(raised), db |-> d, calculated |-> None]
        ELSE respond("savings_plan", request, env,
                     calculate_savings_plan(ft.v,
                         IF PyTruthy(monthly_saving) THEN Some(fm.v) ELSE None,
                         IF PyTruthy(duration_months) THEN Some(fd.v) ELSE None),
                     d)

\* LoanDurationCalculator.post
LoanDurationCalculator_post(request, env, d) ==
    LET data == request.data
        loan_amount == data.loan_amount
        monthly_payment == data.monthly_payment
        fl == float(loan_amount)
        fp == float(monthly_payment)
        raised == FirstRaised(<<fl, fp>>)
    IN  IF ~PyTruthy(loan_amount) \/ ~PyTruthy(monthly_payment)
        THEN [response |-> Response(400,
                  [error |-> "Le montant du prêt et le paiement mensuel sont requis"]),
              db |-> d, calculated |-> None]
        ELSE IF raised # "None"
        THEN [response |-> except_response(raised), db |-> d, calculated |-> None]
        ELSE respond("loan_duration", request, env,
                     calculate_loan_duration(fl.v, fp.v), d)

\* BudgetSimulator.post.  data.get('expenses', {}) is a dict held as
\* [kind |-> "dict", items |-> the sequence of its [category, value]], an
\* object of another type, or [kind |-> "missing"] when the body has no
\* such key, which the default {} replaces.
BudgetSimulator_post(request, env, d) ==
    LET data == request.data
        monthly_income == data.monthly_income
        expenses == IF data.expenses.kind = "missing"
                    THEN [kind |-> "dict", items |-> << >>]
                    ELSE data.expenses
        savings_goal == data.savings_goal
        fi == float(monthly_income)
        fe == [k \in 1 .. Len(expenses.items) |-> float(expenses.items[k].value)]
        fg == IF PyTruthy(savings_goal) THEN float(savings_goal)
              ELSE [exc |-> "None", cls |-> "finite", v |-> 0]
        raised == FirstRaised(<<fi>> \o fe \o <<fg>>)
    IN  IF ~PyTruthy(monthly_income)
        THEN [response |-> Response(400, [error |-> "Les revenus mensuels sont requis"]),
              db |-> d, calculated |-> None]
        ELSE IF expenses.kind # "dict"
        THEN [response |-> Response(400, [error |-> "Les dépenses doivent être un objet"]),
              db |-> d, calculated |-> None]
        ELSE IF raised # "None"
        THEN [response |-> except_response(raised), db |-> d, calculated |-> None]
        ELSE respond("budget_simulation", request, env,
                     simulate_budget(fi.v,
                         [k \in 1 .. Len(expenses.items) |->
                             [category |-> expenses.items[k].category,
                              amount |-> fe[k].v]],
                         IF PyTruthy(savings_goal) THEN Some(fg.v) ELSE None),
                     d)

(***************************************************************************)
(* Arguments drawn by the model (amounts in model units, 1/Scale)          *)
(***************************************************************************)
TargetAmounts == (-1 .. MaxTarget * Scale) \cup {1200 * Scale}
MonthlySavings ==
    {None} \cup {Some(m) : m \in (-1 .. MaxMonthly * Scale) \cup {100 * Scale}}
Durations ==
    {None} \cup {Some(d) : d \in (-1 .. MaxDuration)
                    \cup {MAX_LOAN_DURATION_MONTHS, MAX_LOAN_DURATION_MONTHS + 1}}

\* loans around MIN_LOAN_AMOUNT and MAX_LOAN_AMOUNT, and at the duration limit
LoanAmounts ==
    ((MIN_LOAN_AMOUNT - MaxLoanSpread) * Scale .. (MIN_LOAN_AMOUNT + MaxLoanSpread) * Scale)
    \cup {-1, 0, 1000 * Scale,
          MAX_LOAN_DURATION_MONTHS * Scale, (MAX_LOAN_DURATION_MONTHS + 1) * Scale,
          MAX_LOAN_AMOUNT * Scale - 1, MAX_LOAN_AMOUNT * Scale, MAX_LOAN_AMOUNT * Scale + 1}
MonthlyPayments ==
    (-1 .. MaxPayment * Scale)
    \cup ((MIN_LOAN_AMOUNT - 1) * Scale .. (MIN_LOAN_AMOUNT + 1) * Scale)
    \cup {300 * Scale,
          (Ceil(MAX_LOAN_AMOUNT, MAX_LOAN_DURATION_MONTHS) - 1) * Scale,
          Ceil(MAX_LOAN_AMOUNT, MAX_LOAN_DURATION_MONTHS) * Scale,
          MAX_LOAN_AMOUNT * Scale}

Incomes == -1 .. MaxIncome
ExpenseAmounts == -1 .. MaxExpense
CategoryNames == {"logement", "Logement", "alimentation", "nourriture", "transport"}
Entries == {[category |-> c, amount |-> a] : c \in CategoryNames, a \in ExpenseAmounts}
\* dicts of at most n entries: sequences of entries with distinct keys
ExpenseDicts(n) ==
    {e \in UNION {[1 .. k -> Entries] : k \in 0 .. n} :
        \A j, k \in 1 .. Len(e) : j # k => e[j].category # e[k].category}
SavingsGoals == {None} \cup {Some(g) : g \in -1 .. MaxGoal}

ZakatAssets ==
    (-1 .. MaxAssets) \cup {2000 * Scale, 5000 * Scale}
    \cup (DEFAULT_NISAB * Scale - 1 .. DEFAULT_NISAB * Scale + 1)
ZakatDebts == (-1 .. MaxDebts) \cup {500 * Scale, 1000 * Scale}
NisabValues == {None} \cup {Some(n) : n \in 0 .. MaxNisab}

\* objects passed to the validators
RawStrings ==
    { <<"5">>, <<"1", "2">>, <<" ", "7", " ">>, <<"-", "3">>, <<"0">>,
      <<"2", ".", "0">>, <<"2", ".", "5">>, <<".", "5">>, <<"3", ".">>,
      <<"3", "6", "0">>, <<"3", "6", "1">>,
      <<"a", "b", "c">>, << >>, <<" ">>, <<"-">>, <<".">>, <<"1", ".", "2", ".", "3">>,
      <<"i", "n", "f">>, <<"-", "i", "n", "f">>, <<"n", "a", "n">> }
RawSpecials ==
    {PyBigInt(1), PyBigInt(-1), PyNone, PyList,
     PyFloat("nan", 0), PyFloat("inf", 0), PyFloat("-inf", 0)}
RawAmounts ==
    {PyInt(n) : n \in -1 .. MaxRawValue}
    \cup {PyFloat("finite", v) : v \in -1 .. MaxRawValue * Scale}
    \cup {PyStr(c) : c \in RawStrings}
    \cup RawSpecials
RawLimits == {None} \cup {Some(n) : n \in 0 .. MaxRawLimit}
RawDurations ==
    {PyInt(n) : n \in (-1 .. MaxRawValue)
                  \cup (MAX_LOAN_DURATION_MONTHS - 1 .. MAX_LOAN_DURATION_MONTHS + 1)}
    \cup {PyFloat("finite", v) :
            v \in (-Scale - 1 .. MaxRawValue * Scale)
                  \cup (MAX_LOAN_DURATION_MONTHS * Scale - 1 ..
                        (MAX_LOAN_DURATION_MONTHS + 1) * Scale)}
    \cup {PyStr(c) : c \in RawStrings}
    \cup RawSpecials

\* JSON bodies, headers and environments of the requests to the endpoints
Numeral12 == PyStr(<<"1", "2">>)
NotANumber == PyStr(<<"a", "b", "c">>)
PyDict(items) == [kind |-> "dict", items |-> items]
Item(category, value) == [category |-> category, value |-> value]

ApiTargetAmounts ==
    {PyNone, PyInt(0), PyInt(5), PyInt(20), PyFloat("finite", 25), Numeral12,
     NotANumber, PyList}
ApiMonthlySavings ==
    {PyNone, PyInt(0), PyInt(5), PyInt(10), PyFloat("finite", 25), Numeral12,
     NotANumber, PyList}
ApiDurations ==
    {PyNone, PyInt(0), PyInt(3), PyInt(MAX_LOAN_DURATION_MONTHS + 1),
     PyFloat("finite", 2 * Scale + 1), Numeral12, PyStr(<<"2", ".", "5">>), NotANumber}
ApiLoanAmounts ==
    {PyNone, PyInt(0), PyInt(50), PyInt(MIN_LOAN_AMOUNT), PyInt(1000),
     PyStr(<<"3", "6", "0">>), NotANumber, PyList}
ApiMonthlyPayments ==
    {PyNone, PyInt(0), PyInt(1), PyInt(300), PyFloat("finite", 1), Numeral12,
     NotANumber, PyList}
ApiIncomes ==
    {PyNone, PyInt(0), PyInt(-1), PyInt(5), Numeral12, NotANumber, PyList}
ApiExpenses ==
    {[kind |-> "missing"], PyNone, PyList, PyDict(<< >>),
     PyDict(<<Item("logement", PyInt(2))>>),
     PyDict(<<Item("logement", PyInt(0))>>),
     PyDict(<<Item("transport", NotANumber)>>),
     PyDict(<<Item("logement", PyInt(5)), Item("alimentation", PyStr(<<"5">>))>>)}
ApiSavingsGoals == {PyNone, PyInt(0), PyInt(2), NotANumber}

\* Authorization header and environment: no header; a header and each
\* outcome of get_jwt_identity(); for an identified caller, each outcome of
\* the commit
ApiSettings ==
    {[authorization |-> FALSE, env |-> [jwt |-> "None", write |-> "ok"]]}
    \cup {[authorization |-> TRUE, env |-> [jwt |-> j, write |-> "ok"]] :
            j \in {"RuntimeError", "None"}}
    \cup {[authorization |-> TRUE, env |-> [jwt |-> "identity", write |-> w]] :
            w \in {"ok", "OperationalError"}}

\* the table before the request: empty, or with a row saved earlier
ApiDatabases ==
    {EmptyDb,
     [calculations |-> << [user_id |-> USER_ID, calculation_type |-> "zakat_calculation",
                           input_data |-> [assets |-> PyInt(5000)],
                           result_data |-> calculate_zakat(5000 * Scale, 0, None)] >>,
      session |-> << >>]}

\* no user account and no request to the user endpoints
NoAccounts ==
    /\ users = << >>
    /\ audit_logs = << >>
    /\ clients = << >>

(***************************************************************************)
(* State machine.  The calculators keep no state between calls, so a       *)
(* behaviour is one call: Init draws the call and its arguments, and the   *)
(* action of the called function runs it to its return value.  For an      *)
(* endpoint Init draws the request, its environment and the database       *)
(* before it, and the action runs the whole handler to its response.       *)
(***************************************************************************)
SavingsPlanCalls ==
    {[fn |-> "calculate_savings_plan", target_amount |-> t,
      monthly_saving |-> m, duration_months |-> d] :
        t \in TargetAmounts, m \in MonthlySavings, d \in Durations}

LoanDurationCalls ==
    {[fn |-> "calculate_loan_duration", loan_amount |-> l, monthly_payment |-> p] :
        l \in LoanAmounts, p \in MonthlyPayments}

BudgetCalls ==
    {[fn |-> "simulate_budget", monthly_income |-> i, expenses |-> e,
      savings_goal |-> None] :
        i \in Incomes, e \in ExpenseDicts(MaxExpenses)}
    \cup
    {[fn |-> "simulate_budget", monthly_income |-> i, expenses |-> e,
      savings_goal |-> g] :
        i \in Incomes, e \in ExpenseDicts(1), g \in SavingsGoals}
    \cup
    {[fn |-> "simulate_budget", monthly_income |-> 3000 * Scale,
      expenses |-> << [category |-> c[1], amount |-> 1200 * Scale],
                      [category |-> c[2], amount |-> 400 * Scale] >>,
      savings_goal |-> None] :
        c \in {<<"logement", "alimentation">>, <<"housing", "food">>}}
    \cup
    \* savings of 9.96 % and of 19.96 % of the income, which round to 10.0
    \* and to 20.0
    {[fn |-> "simulate_budget", monthly_income |-> 2500 * Scale,
      expenses |-> << [category |-> "transport", amount |-> a * Scale] >>,
      savings_goal |-> None] : a \in {2251, 2001}}
    \cup
    \* housing at exactly 35 % and food at exactly 15 % of the income
    {[fn |-> "simulate_budget", monthly_income |-> 100 * Scale,
      expenses |-> << [category |-> "logement", amount |-> 35 * Scale],
                      [category |-> "nourriture", amount |-> 15 * Scale] >>,
      savings_goal |-> None]}

ZakatCalls ==
    {[fn |-> "calculate_zakat", assets |-> a, debts |-> d, nisab_value |-> n] :
        a \in ZakatAssets, d \in ZakatDebts, n \in NisabValues}

ValidateAmountCalls ==
    {[fn |-> "validate_amount", amount |-> a, min_amount |-> lo, max_amount |-> hi] :
        a \in RawAmounts, lo \in RawLimits, hi \in RawLimits}

ValidateDurationCalls ==
    {[fn |-> "validate_duration", months |-> m] : m \in RawDurations}

ApiCall(fn, data, setting) ==
    [fn |-> fn, request |-> [data |-> data, authorization |-> setting.authorization],
     env |-> setting.env]

SavingsPlanRequests ==
    {ApiCall("SavingsPlanCalculator.post",
             [target_amount |-> t, monthly_saving |-> m, duration_months |-> n], a) :
        t \in ApiTargetAmounts, m \in ApiMonthlySavings, n \in ApiDurations,
        a \in ApiSettings}

LoanDurationRequests ==
    {ApiCall("LoanDurationCalculator.post",
             [loan_amount |-> l, monthly_payment |-> p], a) :
        l \in ApiLoanAmounts, p \in ApiMonthlyPayments, a \in ApiSettings}

BudgetRequests ==
    {ApiCall("BudgetSimulator.post",
             [monthly_income |-> i, expenses |-> e, savings_goal |-> g], a) :
        i \in ApiIncomes, e \in ApiExpenses, g \in ApiSavingsGoals, a \in ApiSettings}

Init ==
    /\ \/ /\ \/ call \in SavingsPlanCalls
             \/ call \in LoanDurationCalls
             \/ call \in BudgetCalls
             \/ call \in ZakatCalls
             \/ call \in ValidateAmountCalls
             \/ call \in ValidateDurationCalls
          /\ db = EmptyDb
       \/ /\ \/ call \in SavingsPlanRequests
             \/ call \in LoanDurationRequests
             \/ call \in BudgetRequests
          /\ db \in ApiDatabases
    /\ pc = "called"
    /\ result = [error |-> NoError]
    /\ calculated = None
    /\ NoAccounts

CalculateSavingsPlan ==
    /\ pc = "called"
    /\ call.fn = "calculate_savings_plan"
    /\ result' = calculate_savings_plan(call.target_amount, call.monthly_saving,
                                        call.duration_months)
    /\ pc' = "returned"
    /\ UNCHANGED <<call, db, calculated, accounts>>

CalculateLoanDuration ==
    /\ pc = "called"
    /\ call.fn = "calculate_loan_duration"
    /\ result' = calculate_loan_duration(call.loan_amount, call.monthly_payment)
    /\ pc' = "returned"
    /\ UNCHANGED <<call, db, calculated, accounts>>

SimulateBudget ==
    /\ pc = "called"
    /\ call.fn = "simulate_budget"
    /\ result' = simulate_budget(call.monthly_income, call.expenses, call.savings_goal)
    /\ pc' = "returned"
    /\ UNCHANGED <<call, db, calculated, accounts>>

CalculateZakat ==
    /\ pc = "called"
    /\ call.fn = "calculate_zakat"
    /\ result' = calculate_zakat(call.assets, call.debts, call.nisab_value)
    /\ pc' = "returned"
    /\ UNCHANGED <<call, db, calculated, accounts>>

ValidateAmount ==
    /\ pc = "called"
    /\ call.fn = "validate_amount"
    /\ result' = validate_amount_try(call.amount, call.min_amount, call.max_amount)
    /\ pc' = "returned"
    /\ UNCHANGED <<call, db, calculated, accounts>>

ValidateDuration ==
    /\ pc = "called"
    /\ call.fn = "validate_duration"
    /\ result' = validate_duration_try(call.months)
    /\ pc' = "returned"
    /\ UNCHANGED <<call, db, calculated, accounts>>

\* an endpoint answers a request: result is the response
SavingsPlanCalculatorPost ==
    /\ pc = "called"
    /\ call.fn = "SavingsPlanCalculator.post"
    /\ LET out == SavingsPlanCalculator_post(call.request, call.env, db)
       IN  result' = out.response /\ db' = out.db /\ calculated' = out.calculated
    /\ pc' = "returned"
    /\ UNCHANGED <<call, accounts>>

LoanDurationCalculatorPost ==
    /\ pc = "called"
    /\ call.fn = "LoanDurationCalculator.post"
    /\ LET out == LoanDurationCalculator_post(call.request, call.env, db)
       IN  result' = out.response /\ db' = out.db /\ calculated' = out.calculated
    /\ pc' = "returned"
    /\ UNCHANGED <<call, accounts>>

BudgetSimulatorPost ==
    /\ pc = "called"
    /\ call.fn = "BudgetSimulator.post"
    /\ LET out == BudgetSimulator_post(call.request, call.env, db)
       IN  result' = out.response /\ db' = out.db /\ calculated' = out.calculated
    /\ pc' = "returned"
    /\ UNCHANGED <<call, accounts>>

Next ==
    \/ CalculateSavingsPlan
    \/ CalculateLoanDuration
    \/ SimulateBudget
    \/ CalculateZakat
    \/ ValidateAmount
    \/ ValidateDuration
    \/ SavingsPlanCalculatorPost
    \/ LoanDurationCalculatorPost
    \/ BudgetSimulatorPost

Spec == Init /\ [][Next]_vars

(***************************************************************************)
(* Requests one after the other.  The server answers a request, then the   *)
(* next one arrives, and each finds the table 'calculations' as the        *)
(* requests before it left it.                                             *)
(***************************************************************************)
\* rows in the table 'calculations' after which no further request is drawn
MaxSaved == 2

\* for each calculator endpoint a body its calculator accepts and one it
\* rejects, with every authorization and environment
SequenceRequests ==
    {ApiCall("SavingsPlanCalculator.post",
             [target_amount |-> t, monthly_saving |-> PyNone, duration_months |-> PyInt(3)],
             a) : t \in {PyInt(20), PyInt(5)}, a \in ApiSettings}
    \cup
    {ApiCall("LoanDurationCalculator.post",
             [loan_amount |-> l, monthly_payment |-> PyInt(300)], a) :
        l \in {PyInt(1000), PyInt(50)}, a \in ApiSettings}
    \cup
    {ApiCall("BudgetSimulator.post",
             [monthly_income |-> i, expenses |-> PyDict(<<Item("logement", PyInt(2))>>),
              savings_goal |-> PyNone], a) :
        i \in {PyInt(5), PyInt(-1)}, a \in ApiSettings}

InitRequests ==
    /\ call \in SequenceRequests
    /\ db = EmptyDb
    /\ pc = "called"
    /\ result = [error |-> NoError]
    /\ calculated = None
    /\ NoAccounts

\* the next request arrives
NextRequest ==
    /\ pc = "returned"
    /\ Len(db.calculations) < MaxSaved
    /\ call' \in SequenceRequests
    /\ pc' = "called"
    /\ UNCHANGED <<result, db, calculated, accounts>>

NextRequests ==
    \/ SavingsPlanCalculatorPost
    \/ LoanDurationCalculatorPost
    \/ BudgetSimulatorPost
    \/ NextRequest

SpecRequests == InitRequests /\ [][NextRequests]_vars

(***************************************************************************)
(* User accounts (helpers/users.py, model/finance_tips.py).                *)
(* A str is the sequence of its characters, one string each.  A row of the *)
(* table 'users' holds the columns the handlers below read or decide on:   *)
(* id, email, username, password_hash, is_active, is_verified, last_login  *)
(* (first_name, last_name, phone and the company columns are copied from   *)
(* the request and never read).                                            *)
(***************************************************************************)
LowerLetters == <<"a", "b", "c", "d", "e", "f", "g", "h", "i", "j", "k", "l", "m",
                  "n", "o", "p", "q", "r", "s", "t", "u", "v", "w", "x", "y", "z">>
UpperLetters == <<"A", "B", "C", "D", "E", "F", "G", "H", "I", "J", "K", "L", "M",
                  "N", "O", "P", "Q", "R", "S", "T", "U", "V", "W", "X", "Y", "Z">>
IsLower(c) == \E k \in 1 .. 26 : LowerLetters[k] = c
IsUpper(c) == \E k \in 1 .. 26 : UpperLetters[k] = c
IsLetter(c) == IsLower(c) \/ IsUpper(c)

\* str.lower()
LowerStr(s) ==
    [k \in 1 .. Len(s) |->
        IF IsUpper(s[k])
        THEN LowerLetters[CHOOSE j \in 1 .. 26 : UpperLetters[j] = s[k]]
        ELSE s[k]]

\* str(n) for n >= 0, as characters
RECURSIVE DecimalChars(_)
DecimalChars(n) ==
    IF n < 10 THEN <<DigitChars[n + 1]>>
    ELSE Append(DecimalChars(n \div 10), DigitChars[(n % 10) + 1])

\* validate_email: re.match of
\* ^[a-zA-Z0-9._%+-]+@[a-zA-Z0-9.-]+\.[a-zA-Z]{2,}$
\* ('$' also matches before a newline that ends the string)
validate_email(email) ==
    LET s == IF email # << >> /\ email[Len(email)] = "\n"
             THEN SubSeq(email, 1, Len(email) - 1) ELSE email
        n == Len(s)
        local(c) == IsLetter(c) \/ IsDigit(c) \/ c \in {".", "_", "%", "+", "-"}
        domain(c) == IsLetter(c) \/ IsDigit(c) \/ c \in {".", "-"}
    IN  \E i \in 2 .. n : \E j \in i + 2 .. n - 2 :
            /\ s[i] = "@"
            /\ \A k \in 1 .. i - 1 : local(s[k])
            /\ \A k \in i + 1 .. j - 1 : domain(s[k])
            /\ s[j] = "."
            /\ \A k \in j + 1 .. n : IsLetter(s[k])

\* validate_password: <<valid, message>>
validate_password(password) ==
    IF Len(password) < 8
    THEN <<FALSE, "Le mot de passe doit contenir au moins 8 caractères">>
    ELSE IF ~\E k \in 1 .. Len(password) : IsUpper(password[k])
    THEN <<FALSE, "Le mot de passe doit contenir au moins une majuscule">>
    ELSE IF ~\E k \in 1 .. Len(password) : IsLower(password[k])
    THEN <<FALSE, "Le mot de passe doit contenir au moins une minuscule">>
    ELSE IF ~\E k \in 1 .. Len(password) : IsDigit(password[k])
    THEN <<FALSE, "Le mot de passe doit contenir au moins un chiffre">>
    ELSE <<TRUE, "Mot de passe valide">>

\* User.set_password and User.check_password: the hash of werkzeug is held
\* as the password it was made of, which is all check_password_hash tells
generate_password_hash(password) == [method |-> "hash", of |-> password]
check_password(user, password) == user.password_hash.of = password

\* User.query.filter_by(email=email).first() and filter_by(username=...):
\* the rows found in the table
by_email(table, email) == {k \in 1 .. Len(table) : table[k].email = email}
by_username(table, username) == {k \in 1 .. Len(table) : table[k].username = username}
by_id(table, id) == {k \in 1 .. Len(table) : table[k].id = id}

\* generate_username(email): email.split('@')[0], then with 1, 2, ... added
\* until no row has the username
RECURSIVE username_loop(_, _, _)
username_loop(table, base_username, counter) ==
    LET username == IF counter = 0 THEN base_username
                    ELSE base_username \o DecimalChars(counter)
    IN  IF by_username(table, username) # {}
        THEN username_loop(table, base_username, counter + 1)
        ELSE username

generate_username(table, email) ==
    LET at == {k \in 1 .. Len(email) : email[k] = "@"}
        base_username ==
            IF at = {} THEN email
            ELSE SubSeq(email, 1, (CHOOSE k \in at : \A j \in at : k <= j) - 1)
    IN  username_loop(table, base_username, 0)

\* User(...) of create_user with the column defaults, and set_password
NewUser(email, username, password) ==
    [email |-> email, username |-> username,
     password_hash |-> generate_password_hash(password),
     is_active |-> TRUE, is_verified |-> FALSE, last_login |-> None]

\* mutant of unique_violation: the column email is not unique
unique_violation_username_only(table, row, id) ==
    \E k \in 1 .. Len(table) :
        table[k].id # id /\ table[k].username = row.username

\* the unique constraints of the table (model/finance_tips.py:34-35): a row
\* other than the one with the id holds the email or the username
unique_violation(table, row, id) ==
    \E k \in 1 .. Len(table) :
        /\ table[k].id # id
        /\ (table[k].email = row.email \/ table[k].username = row.username)

\* the INSERT of db.session.add(user) at the commit: the table after it with
\* the new row under the next id, or the IntegrityError of the constraints
users_insert(table, row) ==
    IF unique_violation(table, row, 0)
    THEN [raised |-> "IntegrityError", table |-> table, id |-> 0]
    ELSE [raised |-> "None",
          table |-> Append(table, [id |-> Len(table) + 1] @@ row),
          id |-> Len(table) + 1]

\* the UPDATE at the commit of the columns a session changed in the row
\* with the id: changes is a record of the new values
users_update(table, id, changes) ==
    LET k == CHOOSE k \in by_id(table, id) : TRUE
        row == changes @@ table[k]
    IN  IF unique_violation(table, row, id)
        THEN [raised |-> "IntegrityError", table |-> table]
        ELSE [raised |-> "None", table |-> [table EXCEPT ![k] = row]]

\* log_user_action(user_id, action, 'User', user_id): a row of audit_logs
log_user_action(logs, user_id, action) ==
    Append(logs, [user_id |-> user_id, action |-> action])

(***************************************************************************)
(* Registration and profile update (UserRegister.post with create_user,    *)
(* UserProfile.put with update_user_profile), for requests that run at the *)
(* same time.  Each request has its own session; the tables are shared.    *)
(* A handler is cut where it reads or writes the database: what another    *)
(* request commits in between is seen by the next read, and the commit     *)
(* meets the unique constraints of the table as it then is.                *)
(* A client is [pc, fn, local]: pc is "idle" between requests, local is     *)
(* what the handler holds of a request on its way.                         *)
(***************************************************************************)
USER_EXISTS == "Cet utilisateur existe déjà"

\* the tokens of generate_tokens(user): each names the identity it is for
generate_tokens(user) ==
    [access_token |-> [identity |-> user.id, type |-> "access"],
     refresh_token |-> [identity |-> user.id, type |-> "refresh"],
     token_type |-> "Bearer"]

\* User.to_dict(), of the columns held
to_dict(user) ==
    [id |-> user.id, email |-> user.email, username |-> user.username,
     is_active |-> user.is_active, is_verified |-> user.is_verified]

\* create_user, lines 57-69: the email and the password are validated and
\* the email is looked up.  Returns [raised, error, email]: the exception
\* raised ("None": none), the error message returned ("None": none, the
\* function goes on) and the email in its stored form.
create_user_check(data, table) ==
    LET email == IF data.email.kind = "str"
                 THEN LowerStr(Strip(data.email.chars)) ELSE << >>
        vp == validate_password(data.password)
        stop(raised, error) == [raised |-> raised, error |-> error, email |-> email]
    IN  IF data.email.kind # "str" THEN stop("AttributeError", "None")
        ELSE IF email = << >> \/ ~validate_email(email) THEN stop("None", "Email invalide")
        ELSE IF ~vp[1] THEN stop("None", vp[2])
        ELSE IF by_email(table, email) # {} THEN stop("None", USER_EXISTS)
        ELSE stop("None", "None")

\* create_user, lines 72-89: the User object with the username of the
\* request, or else the one generate_username finds free
create_user_build(data, email, table) ==
    NewUser(email,
            IF data.username # None THEN Val(data.username)
            ELSE generate_username(table, email),
            data.password)

\* the except clauses of create_user, after db.session.rollback(): the
\* error message returned for the exception
create_user_except(raised) ==
    IF raised = "IntegrityError" THEN "Erreur d'intégrité des données"
    ELSE "'NoneType' object has no attribute 'strip'"

\* UserRegister.post after create_user returned (user, error)
register_response(user, error) ==
    IF error # "None" THEN Response(400, [error |-> error])
    ELSE Response(201, [message |-> "Compte créé avec succès", user |-> to_dict(user)]
                       @@ generate_tokens(user))

\* update_user_profile, lines 165-176: the new email is validated and
\* looked up.  Returns [error, email, changed, changes]: the error message
\* returned ("None": none), the new email in its stored form, whether the
\* session changed columns of the row, and their new values.
update_user_profile_check(user, data, table) ==
    LET new_email == LowerStr(Strip(data.email.chars))
        existing == by_email(table, new_email)
        stop(error) == [error |-> error, email |-> new_email, changed |-> FALSE,
                        changes |-> << >>]
    IN  IF data.email.chars = user.email THEN stop("None")
        ELSE IF ~validate_email(new_email) THEN stop("Email invalide")
        ELSE IF \E k \in existing : table[k].id # user.id
        THEN stop("Cet email est déjà utilisé")
        ELSE [error |-> "None", email |-> new_email, changed |-> TRUE,
              changes |-> [email |-> new_email, is_verified |-> FALSE]]

\* UserProfile.put after update_user_profile returned (success, error)
profile_response(user, error) ==
    IF error # "None" THEN Response(400, [error |-> error])
    ELSE Response(200, [message |-> "Profil mis à jour avec succès",
                        user |-> to_dict(user)])

\* str(e) of the exception update_user_profile catches at the commit
update_user_profile_except(raised) == raised

NOT_FOUND == "Ressource non trouvée"

NumClients == 2
MaxAuditLogs == 2
Clients == 1 .. NumClients

GoodPassword == <<"P", "a", "s", "s", "w", "0", "r", "d">>
WeakPassword == <<"a", "b", "c">>
EmailAB == <<"a", "@", "b", ".", "c", "o">>
EmailABSpelled == <<" ", "A", "@", "B", ".", "c", "o", " ">>
EmailAC == <<"a", "@", "c", ".", "c", "o">>

\* the bodies of the registration requests: each has 'email' and
\* 'password' and no 'account_type' (so the checks of UserRegister.post
\* before create_user pass); 'username' may be missing
RegisterBodies ==
    {[email |-> PyStr(e), password |-> GoodPassword, username |-> None] :
        e \in {EmailAB, EmailABSpelled, EmailAC, <<"a", "b">>}}
    \cup {[email |-> PyNone, password |-> GoodPassword, username |-> None],
          [email |-> PyStr(EmailAB), password |-> WeakPassword, username |-> None],
          [email |-> PyStr(EmailAC), password |-> GoodPassword,
           username |-> Some(<<"a">>)]}

\* the bodies of the profile updates: an 'email', no 'password'
ProfileBodies == {[email |-> PyStr(e)] : e \in {EmailAB, EmailABSpelled, EmailAC}}

IdleClient == [pc |-> "idle", fn |-> "none", local |-> << >>]

InitAccounts ==
    /\ call = [fn |-> "none"]
    /\ pc = "returned"
    /\ result = [fn |-> "none"]
    /\ db = EmptyDb
    /\ calculated = None
    /\ users = << >>
    /\ audit_logs = << >>
    /\ clients = [c \in Clients |-> IdleClient]

\* the request of the client ended with the response: result is the last
\* request that ended, the email it was for as the handler compares it, and
\* its response
Responded(c, fn, email, response) ==
    /\ clients' = [clients EXCEPT ![c] = IdleClient]
    /\ result' = [fn |-> fn, email |-> email, response |-> response]

\* the request goes on at pc with what it holds
GoesOn(c, fn, at, local) ==
    /\ clients' = [clients EXCEPT ![c] = [pc |-> at, fn |-> fn, local |-> local]]
    /\ UNCHANGED result

\* UserRegister.post up to the lookup of the email by create_user
RegisterCheck(c) ==
    /\ clients[c].pc = "idle"
    /\ Len(audit_logs) < MaxAuditLogs
    /\ \E data \in RegisterBodies :
         LET check == create_user_check(data, users)
         IN  IF check.raised # "None"
             THEN Responded(c, "register", check.email,
                            register_response(None, create_user_except(check.raised)))
             ELSE IF check.error # "None"
             THEN Responded(c, "register", check.email,
                            register_response(None, check.error))
             ELSE GoesOn(c, "register", "build",
                         [email |-> check.email, username |-> data.username,
                          password |-> data.password])
    /\ UNCHANGED <<call, pc, db, calculated, users, audit_logs>>

\* create_user from User(...) to db.session.add(user)
RegisterBuild(c) ==
    /\ clients[c].pc = "build"
    /\ GoesOn(c, "register", "insert",
              [user |-> create_user_build(clients[c].local, clients[c].local.email,
                                          users)])
    /\ UNCHANGED <<call, pc, db, calculated, users, audit_logs>>

\* db.session.commit() of create_user, its audit log row (a table no
\* request reads) and the response of UserRegister.post
RegisterCommit(c) ==
    /\ clients[c].pc = "insert"
    /\ LET done == users_insert(users, clients[c].local.user)
       IN  IF done.raised # "None"
           THEN /\ Responded(c, "register", clients[c].local.user.email,
                             register_response(None, create_user_except(done.raised)))
                /\ UNCHANGED <<users, audit_logs>>
           ELSE /\ users' = done.table
                /\ audit_logs' = log_user_action(audit_logs, done.id, "USER_CREATED")
                /\ Responded(c, "register", clients[c].local.user.email,
                             register_response(done.table[done.id], "None"))
    /\ UNCHANGED <<call, pc, db, calculated>>

\* UserProfile.put for the identity of the token up to the lookup of the
\* new email by update_user_profile
ProfileCheck(c) ==
    /\ clients[c].pc = "idle"
    /\ Len(audit_logs) < MaxAuditLogs
    /\ \E user_id \in 1 .. 2 : \E body \in ProfileBodies :
         LET data == [user_id |-> user_id] @@ body
             found == by_id(users, user_id)
             user == users[CHOOSE k \in found : TRUE]
             check == update_user_profile_check(user, data, users)
         IN  IF found = {}
             THEN Responded(c, "profile", LowerStr(Strip(body.email.chars)),
                            Response(404, [error |-> NOT_FOUND]))
             ELSE IF check.error # "None"
             THEN Responded(c, "profile", check.email,
                            profile_response(user, check.error))
             ELSE GoesOn(c, "profile", "update", [user_id |-> user_id] @@ check)
    /\ UNCHANGED <<call, pc, db, calculated, users, audit_logs>>

\* db.session.commit() of update_user_profile, its audit log row and the
\* response of UserProfile.put
ProfileCommit(c) ==
    /\ clients[c].pc = "update"
    /\ LET user_id == clients[c].local.user_id
           done == IF clients[c].local.changed
                   THEN users_update(users, user_id, clients[c].local.changes)
                   ELSE [raised |-> "None", table |-> users]
           user == done.table[CHOOSE k \in by_id(done.table, user_id) : TRUE]
       IN  IF done.raised # "None"
           THEN /\ Responded(c, "profile", clients[c].local.email,
                             profile_response(user, update_user_profile_except(done.raised)))
                /\ UNCHANGED <<users, audit_logs>>
           ELSE /\ users' = done.table
                /\ audit_logs' = log_user_action(audit_logs, user_id, "PROFILE_UPDATED")
                /\ Responded(c, "profile", clients[c].local.email, profile_response(user, "None"))
    /\ UNCHANGED <<call, pc, db, calculated>>

NextAccounts ==
    \/ \E c \in Clients : RegisterCheck(c)
    \/ \E c \in Clients : RegisterBuild(c)
    \/ \E c \in Clients : RegisterCommit(c)
    \/ \E c \in Clients : ProfileCheck(c)
    \/ \E c \in Clients : ProfileCommit(c)

SpecAccounts == InitAccounts /\ [][NextAccounts]_vars

(***************************************************************************)
(* Login and activation (UserLogin.post with authenticate_user,            *)
(* UserToggleStatus.post with toggle_user_status), one request after the   *)
(* other on the accounts two registrations made.  call is the request with *)
(* the time datetime.utcnow() gives during it, result the last response.   *)
(***************************************************************************)
INVALID_CREDENTIALS == "Identifiants invalides"

\* truth value of a JSON string or null
TruthyStr(v) == v.kind = "str" /\ v.chars # << >>

\* mutant of account_disabled: the account is never taken for deactivated
account_disabled_never(user) == FALSE

\* 'if not user.is_active' of authenticate_user
account_disabled(user) == ~user.is_active

\* authenticate_user(email, password) at the time now: [user_id, error,
\* table], user_id 0 and the error message when it returns (None, error),
\* error "None" when it returns (user, None)
authenticate_user(email, password, table, now) ==
    LET found == by_email(table, LowerStr(email))
        k == CHOOSE k \in found : TRUE
        fails(error) == [user_id |-> 0, error |-> error, table |-> table]
    IN  IF email = << >> \/ password = << >> THEN fails(INVALID_CREDENTIALS)
        ELSE IF found = {} THEN fails(INVALID_CREDENTIALS)
        ELSE IF ~check_password(table[k], password) THEN fails(INVALID_CREDENTIALS)
        ELSE IF account_disabled(table[k]) THEN fails("Compte désactivé")
        ELSE [user_id |-> table[k].id, error |-> "None",
              table |-> [table EXCEPT ![k].last_login = Some(now)]]

\* UserLogin.post: [response, table]
UserLogin_post(data, table, now) ==
    LET done == authenticate_user(data.email.chars, data.password.chars, table, now)
        user == done.table[CHOOSE k \in by_id(done.table, done.user_id) : TRUE]
    IN  IF ~TruthyStr(data.email) \/ ~TruthyStr(data.password)
        THEN [response |-> Response(400, [error |-> "Email et mot de passe requis"]),
              table |-> table]
        ELSE IF done.error # "None"
        THEN [response |-> Response(401, [error |-> done.error]), table |-> table]
        ELSE [response |-> Response(200, [message |-> "Connexion réussie",
                                          user |-> to_dict(user)]
                                         @@ generate_tokens(user)),
              table |-> done.table]

\* toggle_user_status(user): [is_active, table, logs]
toggle_user_status(user_id, table, logs) ==
    LET k == CHOOSE k \in by_id(table, user_id) : TRUE
        is_active == ~table[k].is_active
    IN  [is_active |-> is_active,
         table |-> [table EXCEPT ![k].is_active = is_active],
         logs |-> log_user_action(logs, user_id,
                                  IF is_active THEN "USER_ACTIVATED"
                                  ELSE "USER_DEACTIVATED")]

\* UserToggleStatus.post: [response, table, logs]
UserToggleStatus_post(user_id, table, logs) ==
    LET done == toggle_user_status(user_id, table, logs)
    IN  IF by_id(table, user_id) = {}
        THEN [response |-> Response(404, [error |-> NOT_FOUND]),
              table |-> table, logs |-> logs]
        ELSE [response |-> Response(200,
                  [message |-> IF done.is_active
                               THEN "Utilisateur activé avec succès"
                               ELSE "Utilisateur désactivé avec succès",
                   is_active |-> done.is_active]),
              table |-> done.table, logs |-> done.logs]

MaxClock == 5

WrongPassword == <<"P", "a", "s", "s", "w", "0", "r", "t">>

\* the accounts create_user made of two registrations, and their audit log
RegisteredUsers ==
    LET first == users_insert(<< >>, create_user_build(
                     [username |-> None, password |-> GoodPassword], EmailAB, << >>))
    IN  users_insert(first.table, create_user_build(
            [username |-> None, password |-> GoodPassword], EmailAC, first.table)).table

RegisteredLogs ==
    log_user_action(log_user_action(<< >>, 1, "USER_CREATED"), 2, "USER_CREATED")

\* the bodies of the login requests
LoginBodies ==
    {[email |-> PyStr(e), password |-> PyStr(p)] :
        e \in {EmailAB, EmailABSpelled, <<"A", "@", "B", ".", "c", "o">>, EmailAC,
               <<"z", "@", "b", ".", "c", "o">>},
        p \in {GoodPassword, WrongPassword}}
    \cup {[email |-> PyNone, password |-> PyStr(GoodPassword)],
          [email |-> PyStr(EmailAB), password |-> PyStr(<< >>)]}

InitLogin ==
    /\ call = [fn |-> "none", now |-> 0]
    /\ pc = "returned"
    /\ result = [fn |-> "none"]
    /\ db = EmptyDb
    /\ calculated = None
    /\ users = RegisteredUsers
    /\ audit_logs = RegisteredLogs
    /\ clients = << >>

UserLoginPost ==
    /\ call.now < MaxClock
    /\ \E data \in LoginBodies : \E now \in call.now + 1 .. MaxClock :
         LET done == UserLogin_post(data, users, now)
         IN  /\ call' = [fn |-> "login", data |-> data, now |-> now]
             /\ result' = [fn |-> "login", response |-> done.response]
             /\ users' = done.table
    /\ UNCHANGED <<pc, db, calculated, audit_logs, clients>>

UserToggleStatusPost ==
    /\ call.now < MaxClock
    /\ \E user_id \in 1 .. 3 : \E now \in call.now + 1 .. MaxClock :
         LET done == UserToggleStatus_post(user_id, users, audit_logs)
         IN  /\ call' = [fn |-> "toggle", user_id |-> user_id, now |-> now]
             /\ result' = [fn |-> "toggle", response |-> done.response]
             /\ users' = done.table
             /\ audit_logs' = done.logs
    /\ UNCHANGED <<pc, db, calculated, clients>>

NextLogin ==
    \/ UserLoginPost
    \/ UserToggleStatusPost

SpecLogin == InitLogin /\ [][NextLogin]_vars

(***************************************************************************)
(* Properties                                                              *)
(***************************************************************************)
\* the call of fn has returned: result is its return value
Returned(fn) == pc = "returned" /\ call.fn = fn
Ok == result.error = NoError
\* the result dict has the key
Has(d, key) == key \in DOMAIN d
SavingsComputed ==
    {"monthly_saving", "duration_months", "duration_years", "total_saved", "suggestions"}
\* n = ceil(a / b), said without Ceil: n is the least integer with b * n >= a
IsCeil(n, a, b) == b * n >= a /\ b * (n - 1) < a

\* the payments of entries lo .. hi of a schedule, added up
RECURSIVE SumPayments(_, _, _)
SumPayments(s, lo, hi) ==
    IF lo > hi THEN 0
    ELSE IF lo = hi THEN s[lo].payment
    ELSE LET mid == (lo + hi) \div 2
         IN  SumPayments(s, lo, mid) + SumPayments(s, mid + 1, hi)

\* a loan input that passes every check of calculate_loan_duration
ValidLoanInput ==
    /\ call.loan_amount >= MIN_LOAN_AMOUNT * Scale
    /\ call.loan_amount <= MAX_LOAN_AMOUNT * Scale
    /\ call.monthly_payment >= Scale
    /\ call.monthly_payment <= call.loan_amount
    /\ (call.loan_amount - 1) \div call.monthly_payment + 1 <= MAX_LOAN_DURATION_MONTHS

C4_TotalPaidIsLoanAmount ==
    (Returned("calculate_loan_duration") /\ ValidLoanInput)
    => /\ Has(result, "total_paid")
       /\ result.total_paid = call.loan_amount

\* the amounts of an expenses dict, added up
ExpenseTotal(expenses) ==
    LET Partial[k \in 0 .. Len(expenses)] ==
            IF k = 0 THEN 0 ELSE Partial[k - 1] + expenses[k].amount
    IN  Partial[Len(expenses)]

C6_ZakatEligibility ==
    Returned("calculate_zakat")
    => /\ result.eligible \in BOOLEAN
       /\ result.eligible = (result.net_assets >= result.nisab_value)
       /\ result.eligible = (call.assets - call.debts >=
              (IF call.nisab_value = None THEN DEFAULT_NISAB * Scale
               ELSE Val(call.nisab_value)))
       /\ Has(result, "zakat_amount") <=> result.eligible
       /\ Has(result, "shortfall") <=> ~result.eligible

\* net assets exactly at the nisab: eligible, zakat_amount and no shortfall
C6_Witness ==
    /\ Returned("calculate_zakat")
    /\ result.net_assets = result.nisab_value
    /\ result.eligible
    /\ Has(result, "zakat_amount")
    /\ ~Has(result, "shortfall")

\* C7: calculate_zakat computes net_assets = assets - debts, uses
\* nisab_value = 3000 when the caller gives none, returns zakat_amount =
\* 2.5% of net_assets (net_assets / 40) when net_assets >= nisab_value and
\* shortfall = nisab_value - net_assets otherwise (5000 and 1000: 4000,
\* eligible, 100; 2000 and 500: 1500, not eligible, shortfall 1500).
C7_ZakatAmounts ==
    Returned("calculate_zakat")
    => /\ result.net_assets = call.assets - call.debts
       /\ call.nisab_value = None => result.nisab_value = 3000 * Scale
       /\ call.nisab_value # None => result.nisab_value = Val(call.nisab_value)
       /\ result.net_assets >= result.nisab_value
              => /\ Has(result, "zakat_amount")
                 /\ 40 * result.zakat_amount = Milli(result.net_assets)
       /\ result.net_assets < result.nisab_value
              => /\ Has(result, "shortfall")
                 /\ result.shortfall = result.nisab_value - result.net_assets
       /\ (call.assets = 5000 * Scale /\ call.debts = 1000 * Scale
               /\ call.nisab_value = None)
              => /\ result.net_assets = 4000 * Scale
                 /\ result.eligible
                 /\ result.zakat_amount = Milli(100 * Scale)
       /\ (call.assets = 2000 * Scale /\ call.debts = 500 * Scale
               /\ call.nisab_value = None)
              => /\ result.net_assets = 1500 * Scale
                 /\ ~result.eligible
                 /\ result.shortfall = 1500 * Scale

\* the first worked example: assets 5000, debts 1000, default nisab
C7_Witness ==
    /\ Returned("calculate_zakat")
    /\ call.assets = 5000 * Scale
    /\ call.debts = 1000 * Scale
    /\ call.nisab_value = None
    /\ result.nisab_value = DEFAULT_NISAB * Scale
    /\ result.zakat_amount = Milli(100 * Scale)

\* C8: when only duration_months is given, and target_amount and
\* duration_months are valid, calculate_savings_plan returns monthly_saving
\* = ceil(target_amount / duration_months) (a whole amount), keeps
\* duration_months, and total_saved = monthly_saving * duration_months >=
\* target_amount.
C8_SavingsMonthlyRoundsUp ==
    (/\ Returned("calculate_savings_plan")
     /\ call.monthly_saving = None
     /\ call.duration_months # None
     /\ call.target_amount >= MIN_MONTHLY_SAVING * Scale
     /\ Val(call.duration_months) >= 1
     /\ Val(call.duration_months) <= MAX_LOAN_DURATION_MONTHS)
    => LET t == call.target_amount
           d == Val(call.duration_months)
       IN  /\ Ok
           /\ Has(result, "monthly_saving")
           /\ result.monthly_saving % Scale = 0
           /\ IsCeil(result.monthly_saving \div Scale, t, d * Scale)
           /\ result.duration_months = d
           /\ result.total_saved = result.monthly_saving * d
           /\ result.total_saved >= t

\* a plan by duration whose monthly saving was rounded up to a whole amount
C8_Witness ==
    /\ Returned("calculate_savings_plan")
    /\ Ok
    /\ call.monthly_saving = None
    /\ call.duration_months # None
    /\ Val(call.duration_months) > 1
    /\ result.total_saved > call.target_amount
    /\ result.duration_months = Val(call.duration_months)

C10_MonthlySavingHasPriority ==
    (/\ Returned("calculate_savings_plan")
     /\ call.monthly_saving # None
     /\ call.duration_months # None)
    => /\ result = calculate_savings_plan(call.target_amount, call.monthly_saving, None)
       /\ Ok => /\ result.monthly_saving = Val(call.monthly_saving)
                /\ IsCeil(result.duration_months, call.target_amount,
                          Val(call.monthly_saving))

\* both given, and the duration given is not the one returned
C10_Witness ==
    /\ Returned("calculate_savings_plan")
    /\ Ok
    /\ call.monthly_saving # None
    /\ call.duration_months # None
    /\ Val(call.duration_months) >= 1
    /\ Val(call.duration_months) <= MAX_LOAN_DURATION_MONTHS
    /\ result.duration_months # Val(call.duration_months)
    /\ result.monthly_saving = Val(call.monthly_saving)

\* the keys that calculate_loan_duration adds to a result it computed
LoanComputed ==
    {"duration_months", "duration_years", "total_paid", "last_payment", "payment_schedule"}

\* ceil(loan_amount / monthly_payment) for positive arguments
LoanCeil == (call.loan_amount - 1) \div call.monthly_payment + 1

\* C11: when ceil(loan_amount / monthly_payment) exceeds the maximum of 360
\* months, calculate_loan_duration returns an error and none of
\* duration_months, duration_years, total_paid, last_payment,
\* payment_schedule; every result without error has duration_months <= 360.
C11_LoanDurationLimit ==
    Returned("calculate_loan_duration")
    => /\ (call.loan_amount > 0 /\ call.monthly_payment > 0 /\ LoanCeil > 360)
              => /\ ~Ok
                 /\ DOMAIN result \cap LoanComputed = {}
       /\ Ok => /\ Has(result, "duration_months")
                /\ result.duration_months <= 360
                /\ result.duration_months = LoanCeil

\* an otherwise valid loan that would take 361 months: refused for its duration
C11_Witness ==
    /\ Returned("calculate_loan_duration")
    /\ call.loan_amount >= MIN_LOAN_AMOUNT * Scale
    /\ call.loan_amount <= MAX_LOAN_AMOUNT * Scale
    /\ call.monthly_payment >= Scale
    /\ call.monthly_payment <= call.loan_amount
    /\ LoanCeil = MAX_LOAN_DURATION_MONTHS + 1
    /\ result.error = "La durée de remboursement dépasse le maximum autorisé (360 mois)"
    /\ ~Has(result, "duration_months")

\* C12: calculate_loan_duration returns an error and no computed field
\* whenever loan_amount is outside [100, 10000000], or monthly_payment < 1,
\* or monthly_payment > loan_amount; it accepts (no error, every computed
\* field) every input that satisfies the three conditions and implies at
\* most 360 months.
C12_LoanInputValidation ==
    Returned("calculate_loan_duration")
    => LET l == call.loan_amount
           p == call.monthly_payment
           refused == \/ l < 100 * Scale
                      \/ l > 10000000 * Scale
                      \/ p < 1 * Scale
                      \/ p > l
       IN  /\ refused => /\ ~Ok
                         /\ DOMAIN result \cap LoanComputed = {}
           /\ (~refused /\ LoanCeil <= 360)
                  => /\ Ok
                     /\ LoanComputed \subseteq DOMAIN result

\* a payment equal to the smallest loan allowed: accepted, one month
C12_Witness ==
    /\ Returned("calculate_loan_duration")
    /\ call.loan_amount = MIN_LOAN_AMOUNT * Scale
    /\ call.monthly_payment = call.loan_amount
    /\ Ok
    /\ result.duration_months = 1
    /\ result.last_payment = call.loan_amount

\* the keys that simulate_budget adds to a result it computed
BudgetComputed ==
    {"total_expenses", "expense_breakdown", "available_savings", "savings_rate",
     "budget_status", "recommendations"}

\* C13 as stated: simulate_budget validates every expense amount against
\* amount >= 0: with a valid income, expenses that are all >= 0 (an amount
\* of 0 included) are accepted, and a negative amount is rejected with an
\* error that names the first category whose amount failed, and without
\* totals or breakdown.
C13_ExpenseZeroAccepted ==
    (Returned("simulate_budget") /\ call.monthly_income > 0)
    => LET e == call.expenses
           neg == {k \in 1 .. Len(e) : e[k].amount < 0}
       IN  IF neg = {}
           THEN /\ Ok
                /\ BudgetComputed \subseteq DOMAIN result
           ELSE LET k == CHOOSE k \in neg : \A j \in neg : k <= j
                IN  /\ result.error = "Dépense invalide pour " \o e[k].category
                                          \o ": Le montant doit être positif"
                    /\ DOMAIN result \cap BudgetComputed = {}

\* C14 as stated: simulate_budget accepts monthly_income = 0: with valid
\* expenses the result has no error, every category percentage is 0,
\* savings_rate is 0 and available_savings = -total_expenses.
C14_ZeroIncomeAccepted ==
    (/\ Returned("simulate_budget")
     /\ call.monthly_income = 0
     /\ \A k \in 1 .. Len(call.expenses) : call.expenses[k].amount > 0)
    => /\ Ok
       /\ Has(result, "expense_breakdown") /\ Has(result, "savings_rate")
       /\ \A k \in 1 .. Len(result.expense_breakdown) :
              result.expense_breakdown[k].percentage = 0
       /\ result.savings_rate = 0
       /\ result.available_savings = -result.total_expenses

\* C15 as stated, for the goals an amount check with minimum 0 is meant to
\* pass: whenever a savings_goal >= 0 is supplied to simulate_budget, the
\* result (of an accepted budget) contains goal_achievable =
\* (available_savings >= savings_goal) and goal_gap = max(0, savings_goal -
\* available_savings), so goal_gap = 0 exactly when the goal is achievable.
C15_GoalFieldsWheneverSupplied ==
    (/\ Returned("simulate_budget") /\ Ok
     /\ call.savings_goal # None /\ Val(call.savings_goal) >= 0)
    => LET g == Val(call.savings_goal)
       IN  /\ Has(result, "goal_achievable") /\ Has(result, "goal_gap")
           /\ result.goal_achievable = (result.available_savings >= g)
           /\ result.goal_gap = IF g - result.available_savings > 0
                                THEN g - result.available_savings ELSE 0
           /\ (result.goal_gap = 0) <=> result.goal_achievable

\* the value a validator argument stands for: "finite" with AmountValue in
\* model units, or beyond every number ("inf", "-inf"), or "nan"
AmountIsNumeric ==
    \/ call.amount.kind \in {"int", "bigint", "float"}
    \/ call.amount.kind = "str" /\ float(call.amount).exc = "None"
AmountClass ==
    CASE call.amount.kind = "int" -> "finite"
      [] call.amount.kind = "bigint" -> IF call.amount.v > 0 THEN "inf" ELSE "-inf"
      [] call.amount.kind = "float" -> call.amount.cls
      [] OTHER -> float(call.amount).cls
AmountValue ==
    CASE call.amount.kind = "int" -> call.amount.v * Scale
      [] call.amount.kind = "float" -> call.amount.v
      [] OTHER -> float(call.amount).v
AmountRejected ==
    \/ ~AmountIsNumeric
    \/ AmountClass = "-inf"
    \/ AmountClass = "finite" /\ AmountValue <= 0
    \/ /\ call.min_amount # None
       /\ AmountClass = "finite" /\ AmountValue < Val(call.min_amount) * Scale
    \/ /\ call.max_amount # None
       /\ \/ AmountClass = "inf"
          \/ AmountClass = "finite" /\ AmountValue > Val(call.max_amount) * Scale

\* C16 as stated: validate_amount(value, minimum, maximum) never raises; it
\* returns (False, message) when value is non-numeric, <= 0, below minimum
\* or above maximum, and (True, no message) in every other case, for
\* integers, decimals and numeric strings alike.
C16_ValidateAmountTotal ==
    Returned("validate_amount")
    => /\ result.raised = "None"
       /\ IF AmountRejected
          THEN result.valid = FALSE /\ result.message # NoError
          ELSE result.valid = TRUE /\ result.message = NoError

\* C17 as stated: validate_duration(months) never raises; it returns ok
\* exactly when months is integer-coercible and 1 <= int(months) <= 360, and
\* fails with a message otherwise.
C17_ValidateDurationTotal ==
    Returned("validate_duration")
    => LET n == int(call.months)
       IN  /\ result.raised = "None"
           /\ result.valid = (/\ n.exc = "None"
                              /\ ~n.big
                              /\ 1 <= n.v
                              /\ n.v <= 360)
           /\ ~result.valid => result.message # NoError

\* the three calculator endpoints with a save_calculation after the calculator
ApiEndpoints ==
    {"SavingsPlanCalculator.post", "LoanDurationCalculator.post", "BudgetSimulator.post"}
ApiReturned == pc = "returned" /\ call.fn \in ApiEndpoints

\* C19 as stated: for the savings-plan, loan-duration and budget-simulation
\* endpoints, whenever the calculator returned an error the response is
\* status 400 with body {"error": the calculator's message}, and whenever
\* the calculator succeeded the response is its result with status 200.
C19_ResponseFollowsCalculator ==
    (ApiReturned /\ calculated # None)
    => LET res == Val(calculated)
       IN  IF res.error # NoError
           THEN result = Response(400, [error |-> res.error])
           ELSE result = Response(200, res)

\* C20: when the calculator succeeded for an identified caller (a request
\* with an Authorization header for which get_jwt_identity() returns the
\* identity) and the database write of save_calculation fails, the endpoint
\* still answers the calculation result with status 200, and the write is
\* rolled back: the table holds the rows it held before, and no row is left
\* pending in the session.
C20_FailedSaveKeepsResponse ==
    [][(/\ pc = "called"
        /\ call.fn \in ApiEndpoints
        /\ call.request.authorization
        /\ call.env.jwt = "identity"
        /\ call.env.write # "ok"
        /\ calculated' # None
        /\ Val(calculated').error = NoError)
       => /\ result' = Response(200, Val(calculated'))
          /\ db'.calculations = db.calculations
          /\ db'.session = << >>]_vars

\* an identified caller whose savings plan was computed and whose write
\* failed: status 200 with the plan, and only the earlier row in the table
C20_Witness ==
    /\ ApiReturned
    /\ call.fn = "SavingsPlanCalculator.post"
    /\ call.request.authorization
    /\ call.env.jwt = "identity"
    /\ call.env.write = "OperationalError"
    /\ result.status = 200
    /\ Has(result.body, "duration_months")
    /\ Len(db.calculations) = 1
    /\ db.calculations[1].calculation_type = "zakat_calculation"
    /\ db.session = << >>

(***************************************************************************)
(* Error kinds (spec, error handling design)                               *)
(***************************************************************************)
\* the calculators whose result carries an 'error' entry
Calculators == {"calculate_savings_plan", "calculate_loan_duration", "simulate_budget"}

\* a loan input that passes every check but the limit on the duration
ValidLoanInputButDuration ==
    /\ call.loan_amount >= MIN_LOAN_AMOUNT * Scale
    /\ call.loan_amount <= MAX_LOAN_AMOUNT * Scale
    /\ call.monthly_payment >= Scale
    /\ call.monthly_payment <= call.loan_amount
    /\ (call.loan_amount - 1) \div call.monthly_payment + 1 > MAX_LOAN_DURATION_MONTHS

\* the entries of a result that repeat an argument of the call (numbers)
EchoedArguments == {"target_amount", "loan_amount", "monthly_payment", "monthly_income"}

\* the kind the error taxonomy gives to a failure of the call
ExpectedErrorKind ==
    IF call.fn = "calculate_loan_duration" /\ ValidLoanInputButDuration
    THEN "DomainConstraintError"
    ELSE IF call.fn = "calculate_savings_plan"
            /\ call.monthly_saving = None /\ call.duration_months = None
            /\ call.target_amount >= MIN_MONTHLY_SAVING * Scale
    THEN "UsageError"
    ELSE "ValidationError"

\* C21 as stated: every failure a calculator returns carries, besides its
\* message, an error kind: ValidationError for malformed or out-of-range
\* input, DomainConstraintError for a loan whose computed duration exceeds
\* 360 months, UsageError when neither monthly_saving nor duration_months
\* is supplied.
C21_FailureHasErrorKind ==
    (pc = "returned" /\ call.fn \in Calculators /\ result.error # NoError)
    => \E key \in DOMAIN result \ EchoedArguments : result[key] = ExpectedErrorKind

\* C22 as stated: every successful calculate_savings_plan result, in the
\* by-monthly-saving branch and in the by-duration branch alike, respects
\* the limits the calculator-info endpoint advertises for the savings plan:
\* monthly_saving >= min_monthly_saving (10) and
\* duration_months <= max_duration_months (360).
C22_SavingsPlanWithinAdvertisedLimits ==
    (Returned("calculate_savings_plan") /\ Ok
        /\ plan_case(call.monthly_saving, call.duration_months) # "neither")
    => /\ result.monthly_saving >= MIN_MONTHLY_SAVING * Scale
       /\ result.duration_months <= MAX_LOAN_DURATION_MONTHS

\* the list 'schedule' of generate_payment_schedule before it is sliced, for
\* the loan that returned
LoanFullSchedule ==
    full_schedule(call.loan_amount, call.monthly_payment, result.duration_months)

RuleRank(recommendation) ==
    CASE recommendation.type = "savings" -> 1
      [] recommendation.type = "expense" -> 2
      [] recommendation.type = "budget" -> 3

\* the result's recommendations hold one of the type and priority
Recommends(type, priority) ==
    \E k \in 1 .. Len(result.recommendations) :
        /\ result.recommendations[k].type = type
        /\ result.recommendations[k].priority = priority

\* C24 as stated: the recommendations of simulate_budget hold the
\* high-priority savings advice if and only if savings_rate < 10 %, the
\* informational praise if and only if savings_rate >= 20 %, the critical
\* deficit alert if and only if available_savings < 0, and the entries are
\* in rule order: savings-rate advice, category advice, deficit alert.
\* savings_rate is the entry of the result, in tenths of a percent.
C24_RecommendationsFollowSavingsRate ==
    (Returned("simulate_budget") /\ Ok)
    => LET recs == result.recommendations
       IN  /\ Recommends("savings", "high") <=> result.savings_rate < 100
           /\ Recommends("savings", "info") <=> result.savings_rate >= 200
           /\ Recommends("budget", "critical") <=> result.available_savings < 0
           /\ \A j, k \in 1 .. Len(recs) :
                j < k => RuleRank(recs[j]) <= RuleRank(recs[k])

\* the category recommendations of the result that name the category
CategoryAdvice(category) ==
    {k \in 1 .. Len(result.recommendations) :
        /\ result.recommendations[k].type = "expense"
        /\ result.recommendations[k].category = category}

\* what the category rules give for each entry of the breakdown, for the
\* names in housing that count as the housing label and those in food that
\* count as a food label: one medium-priority entry for a housing category
\* above 35 %, one low-priority entry for a food category above 15 %, none
\* otherwise
CategoryRules(housing, food) ==
    \A k \in 1 .. Len(result.expense_breakdown) :
        LET data == result.expense_breakdown[k]
            advice == CategoryAdvice(data.category)
        IN  IF data.category \in housing /\ data.percentage > 350
            THEN /\ Cardinality(advice) = 1
                 /\ \A j \in advice : result.recommendations[j].priority = "medium"
            ELSE IF data.category \in food /\ data.percentage > 150
            THEN /\ Cardinality(advice) = 1
                 /\ \A j \in advice : result.recommendations[j].priority = "low"
            ELSE advice = {}

\* C25 as stated, with the labels of its example: a category named
\* "housing" (or "logement") above 35 % of the income gets one
\* medium-priority recommendation, a category named "food" (or
\* "alimentation", "nourriture") above 15 % gets one low-priority
\* recommendation, and no other category or smaller share gets one; so
\* {"housing": 1200, "food": 400} on income 3000 gets a housing
\* recommendation at 40 %.
C25_HousingAndFoodLabels ==
    (Returned("simulate_budget") /\ Ok)
    => CategoryRules({"logement", "Logement", "housing"},
                     {"alimentation", "nourriture", "food"})

\* C25 as amended: the labels are 'logement' for housing and 'alimentation'
\* or 'nourriture' for food, compared after lower-casing the category name,
\* and the share is the category's 'percentage' of the breakdown (rounded to
\* one decimal): above 35 a housing category gets one medium-priority
\* recommendation naming it, above 15 a food category gets one low-priority
\* recommendation, and no other category (such as "housing" or "food") and
\* no share at or below its threshold gets one.
C25_CategoryRecommendations ==
    (Returned("simulate_budget") /\ Ok)
    => CategoryRules({"logement", "Logement"}, {"alimentation", "nourriture"})

\* {"logement": 1200, "alimentation": 400} on income 3000: one
\* recommendation for logement at 40.0 %, none for alimentation at 13.3 %
C25_Witness ==
    /\ Returned("simulate_budget")
    /\ Ok
    /\ call.monthly_income = 3000 * Scale
    /\ result.expense_breakdown[1].category = "logement"
    /\ result.expense_breakdown[1].percentage = 400
    /\ \E k \in CategoryAdvice("logement") :
          /\ result.recommendations[k].priority = "medium"
          /\ result.recommendations[k].percentage = 400
    /\ result.expense_breakdown[2].percentage = 133
    /\ CategoryAdvice("alimentation") = {}

\* the suggestions of the result that have the type
SuggestionsOf(type) ==
    {k \in 1 .. Len(result.suggestions) : result.suggestions[k].type = type}

\* the whole amount n with n = ceil(target_amount / months), for the target
\* of the call
WholeShare(months) ==
    CHOOSE n \in 1 .. call.target_amount : IsCeil(n, call.target_amount, months * Scale)

\* C26: the suggestions of a successful savings plan hold the 'faster'
\* proposal, of ceil(target_amount / 12) per month for one year, if and only
\* if duration_months > 12, and the 'comfortable' proposal, of
\* ceil(target_amount / 20) per month over 20 months (5 % of the target per
\* month), if and only if monthly_saving > 10 % of target_amount; and the
\* result keeps the monthly_saving or duration_months that was supplied,
\* with total_saved = monthly_saving * duration_months.
C26_SavingsSuggestions ==
    (Returned("calculate_savings_plan") /\ Ok
        /\ plan_case(call.monthly_saving, call.duration_months) # "neither")
    => /\ SuggestionsOf("faster") # {} <=> result.duration_months > 12
       /\ \A k \in SuggestionsOf("faster") :
            result.suggestions[k].description
                = "En épargnant " \o ToString(WholeShare(12))
                  \o "€ par mois, vous atteindrez votre objectif en 1 an"
       /\ SuggestionsOf("comfortable") # {}
            <=> 10 * result.monthly_saving > call.target_amount
       /\ \A k \in SuggestionsOf("comfortable") :
            result.suggestions[k].description
                = "Une épargne de " \o ToString(WholeShare(20))
                  \o "€ par mois sur 20 mois pourrait être plus confortable"
       /\ Cardinality(SuggestionsOf("faster")) <= 1
       /\ Cardinality(SuggestionsOf("comfortable")) <= 1
       /\ call.monthly_saving # None
            => result.monthly_saving = Val(call.monthly_saving)
       /\ call.monthly_saving = None
            => result.duration_months = Val(call.duration_months)
       /\ result.total_saved = result.monthly_saving * result.duration_months

\* a plan that gets both proposals: 14 over 13 months is 2 per month, more
\* than 10 % of the target
C26_Witness ==
    /\ Returned("calculate_savings_plan")
    /\ Ok
    /\ call.target_amount = 14 * Scale
    /\ call.duration_months = Some(13)
    /\ result.monthly_saving = 2 * Scale
    /\ Len(result.suggestions) = 2
    /\ result.suggestions[1].type = "faster"
    /\ result.suggestions[2].type = "comfortable"

SavedType(fn) ==
    CASE fn = "SavingsPlanCalculator.post" -> "savings_plan"
      [] fn = "LoanDurationCalculator.post" -> "loan_duration"
      [] fn = "BudgetSimulator.post" -> "budget_simulation"

\* the request carries a caller identity: an Authorization header whose
\* token get_jwt_identity() returns the identity of
IdentifiedCaller ==
    call.request.authorization /\ call.env.jwt = "identity"

\* C28: across any sequence of requests to the savings-plan, loan-duration
\* and budget-simulation endpoints, every step leaves the table
\* 'calculations' as it was or appends one record to it; a record is
\* appended only by a request that carries a caller identity and whose
\* calculator returned a result without error, and it holds that caller's
\* id, the endpoint's calculation type, the input of that request and the
\* result of that request; a request answered 400 and an anonymous request
\* leave the table as it was.
C28_RecordOnlyAfterSuccess ==
    [][/\ \/ db'.calculations = db.calculations
          \/ /\ pc = "called"
             /\ call.fn \in ApiEndpoints
             /\ IdentifiedCaller
             /\ calculated' # None
             /\ Val(calculated').error = NoError
             /\ db'.calculations
                  = Append(db.calculations,
                           [user_id |-> USER_ID,
                            calculation_type |-> SavedType(call.fn),
                            input_data |-> call.request.data,
                            result_data |-> Val(calculated')])
       /\ (pc = "called" /\ (result'.status = 400 \/ ~call.request.authorization))
            => db' = db]_vars

\* a second request of an identified caller was saved after the first one:
\* a loan after a savings plan, each with its own input and result
C28_Witness ==
    /\ pc = "returned"
    /\ call.fn = "LoanDurationCalculator.post"
    /\ result.status = 200
    /\ Len(db.calculations) = 2
    /\ db.calculations[1].calculation_type = "savings_plan"
    /\ db.calculations[1].input_data.target_amount = PyInt(20)
    /\ db.calculations[2].calculation_type = "loan_duration"
    /\ db.calculations[2].input_data = call.request.data
    /\ db.calculations[2].result_data = result.body
    /\ db.calculations[2].result_data.duration_months = 4

\* the email as accounts are compared by it: trimmed and in lower case
NormalEmail(email) == LowerStr(Strip(email))

UniqueEmails ==
    \A j \in 1 .. Len(users) : \A k \in 1 .. Len(users) :
        j # k => NormalEmail(users[j].email) # NormalEmail(users[k].email)

\* the last request that ended was a registration answered with an error
\* and without tokens
RegistrationRejected ==
    /\ result.fn = "register"
    /\ result.response.status = 400
    /\ DOMAIN result.response.body = {"error"}

\* the request that ended was a registration that succeeded for the
\* account in the row
RegistrationSucceeded(ended, row) ==
    /\ ended.fn = "register"
    /\ ended.response.status = 201
    /\ ended.response.body.user.id = row.id
    /\ ended.response.body.user.email = row.email
    /\ row.email = ended.email

AccountsOf(data) ==
    IF data.email.kind = "str" THEN by_email(users, LowerStr(data.email.chars)) ELSE {}

\* the response issues no token
NoTokens(response) ==
    DOMAIN response.body \cap {"access_token", "refresh_token"} = {}

\* C30: a deactivated account cannot log in.  For an account with
\* is_active = False, authenticate_user returns an error even with the
\* correct password; a login request for it is answered with an error and
\* without tokens, 401 'Compte désactivé' when the password is the correct
\* one, and leaves last_login and every other column as they were.  A
\* toggle changes is_active of its account and nothing else, and a login
\* with the correct password for an account that is active, also one made
\* active again, is answered 200 with tokens for the account and sets its
\* last_login to the time of the request.
C30_DeactivatedCannotLogIn ==
    [][/\ UserLoginPost =>
            \A k \in AccountsOf(call'.data) :
                LET user == users[k]
                    correct == /\ call'.data.password.kind = "str"
                               /\ check_password(user, call'.data.password.chars)
                IN  /\ ~user.is_active =>
                          /\ authenticate_user(user.email, user.password_hash.of,
                                               users, call'.now).error # "None"
                          /\ authenticate_user(user.email, user.password_hash.of,
                                               users, call'.now).user_id = 0
                          /\ result'.response.status \in {400, 401}
                          /\ "error" \in DOMAIN result'.response.body
                          /\ NoTokens(result'.response)
                          /\ users' = users
                          /\ correct =>
                                /\ result'.response.status = 401
                                /\ result'.response.body.error = "Compte désactivé"
                    /\ user.is_active /\ correct =>
                          /\ result'.response.status = 200
                          /\ result'.response.body.access_token.identity = user.id
                          /\ result'.response.body.refresh_token.identity = user.id
                          /\ users' = [users EXCEPT ![k].last_login = Some(call'.now)]
                          /\ users'[k].last_login # user.last_login
       /\ UserToggleStatusPost =>
            \A k \in by_id(users, call'.user_id) :
                /\ users' = [users EXCEPT ![k].is_active = ~users[k].is_active]
                /\ result'.response.body.is_active = users'[k].is_active]_vars

\* an account that had logged in was deactivated, and a login with its
\* correct password has just been refused: 401, no tokens
C30_Witness ==
    /\ result.fn = "login"
    /\ result.response.status = 401
    /\ result.response.body.error = "Compte désactivé"
    /\ NoTokens(result.response)
    /\ call.data.password.chars = GoodPassword
    /\ \E k \in AccountsOf(call.data) :
          /\ ~users[k].is_active
          /\ users[k].last_login # None
          /\ audit_logs[Len(audit_logs)] =
                 [user_id |-> users[k].id, action |-> "USER_DEACTIVATED"]

\* an account that was deactivated and made active again has just logged
\* in: 200, and last_login is the time of the request
C30_Reactivated ==
    /\ result.fn = "login"
    /\ result.response.status = 200
    /\ \E k \in AccountsOf(call.data) :
          /\ users[k].last_login = Some(call.now)
          /\ \E i \in 1 .. Len(audit_logs) : \E j \in i + 1 .. Len(audit_logs) :
                /\ audit_logs[i] = [user_id |-> users[k].id, action |-> "USER_DEACTIVATED"]
                /\ audit_logs[j] = [user_id |-> users[k].id, action |-> "USER_ACTIVATED"]

====
